---- MODULE Spec2Model ----
(***************************************************************************)
(* Model of src/display/code.py: the data-source functions                 *)
(* (sync_time_from_internet, get_current_location, get_temperature,        *)
(* get_forecast_summary, get_temperature_text, get_redline_departure_text) *)
(* and the control loop display_monitor that schedules them and rotates    *)
(* the display.                                                            *)
(*                                                                         *)
(* One tick of the loop is modelled as the sequence of positions           *)
(*   locate -> weather -> transit -> sync -> render -> sleep               *)
(* with "except" the outer `except Exception` clause.  Every network       *)
(* function is an operator applied to the outcome the remote endpoint      *)
(* produces (drawn with \E in the step that calls it).  Times are seconds  *)
(* of the device clock (time.time()); temperatures are tenths of a degree; *)
(* coordinates are hundredths of a degree.                                 *)
(***************************************************************************)
EXTENDS Integers, Sequences, FiniteSets, TLC

\* ------------------------------------------------------------------ bounds
\* Number of loop iterations explored.
MaxTicks == 10
\* A network call takes 0..FetchDurMax seconds of device-clock time.
FetchDurMax == 1
\* Seconds all the network calls of a run take together, at most.
MaxDelay == 2
\* Calls of a run that fail (an unavailable result, an exception), at most.
MaxFaults == 3
\* A successful time sync moves the device clock by -ClockJump, 0 or +ClockJump.
ClockJump == 6100
\* Device clock when the module is imported (line 36 reads it).
BootClock == 0

\* ------------------------------------------------------- program constants
temperature_query_interval_secs == 240
redline_query_interval_secs == 60
time_sync_interval_secs == 6000
interval_seconds == 10
max_state == 3
\* fail_count > 10 switches to the terminal failure text
fail_threshold == 10
\* minutes_until >= 12 qualifies a prediction
min_lead_minutes == 12
\* at most 2 arrival times are collected
max_train_times == 2

DESCRIPTION_COLOR == "0x00D3FF"
RED_COLOR == "0xFF0000"
YELLOW_COLOR == "0xFFFF00"
GREEN_COLOR == "0x00FF00"

\* Python None, and a present value, as sequences so that they compare.
None == <<>>
Some(x) == <<x>>
IsNone(o) == o = <<>>
Val(o) == o[1]

\* ----------------------------------------------------------------- helpers
\* F applied to the value of v: as a Python call does, the argument is
\* evaluated once, before the body.
Apply(F(_), v) == CHOOSE r \in {F(x) : x \in {v}} : TRUE

RECURSIVE SumSeq(_)
SumSeq(s) == IF s = <<>> THEN 0 ELSE Head(s) + SumSeq(Tail(s))

\* int(round(x, 0)) of x given in tenths: round half to even.
RoundTenths(t) ==
    LET q == t \div 10
        r == t % 10
    IN  IF r < 5 THEN q
        ELSE IF r > 5 THEN q + 1
        ELSE IF q % 2 = 0 THEN q ELSE q + 1

\* str.join over a sequence of integers
RECURSIVE JoinInts(_, _)
JoinInts(s, sep) ==
    IF s = <<>> THEN ""
    ELSE IF Len(s) = 1 THEN ToString(s[1])
    ELSE ToString(s[1]) \o sep \o JoinInts(Tail(s), sep)

\* --------------------------------------------------- endpoint outcomes
\* What one HTTP request can produce:
\*   transport : requests_session.get raises (DNS, TLS, connect, timeout)
\*   status    : a response whose status_code (field "code") is not 200
\*   badjson   : a 200 response whose .json() raises
\*   payload   : a 200 response with a decoded payload (field "data")
Transport == [kind |-> "transport"]
BadStatus(code) == [kind |-> "status", code |-> code]
BadJson == [kind |-> "badjson"]
Payload(d) == [kind |-> "payload", data |-> d]

\* A response is left open when it was acquired and no close() ran on the
\* path taken; the count of such responses is what a function leaks.
StillOpen(acquired, closed) == IF acquired /\ ~closed THEN 1 ELSE 0

\* JSON temperature values: null, a number (tenths of a degree) or a string.
TNull == [t |-> "null", v |-> 0]
TNum(v) == [t |-> "number", v |-> v]
TStr == [t |-> "string", v |-> 0]

\* The classes derived from Exception that the code can meet; KeyboardInterrupt
\* and SystemExit derive from BaseException only.
ExceptionClasses ==
    {"TypeError", "ValueError", "KeyError", "AttributeError", "MemoryError", "OSError"}

\* What the try body of a data-source function raises on an endpoint outcome
\* it cannot use: the request itself raising (OSError, which also stands for
\* the RuntimeError of an SSL failure), json() raising (ValueError), a
\* decoded payload without the expected members (KeyError).
BodyRaises(kind) ==
    CASE kind = "transport" -> "OSError"
      [] kind = "badjson" -> "ValueError"
      [] OTHER -> "KeyError"

\* The handlers `except Exception` of the data-source functions (lines 194,
\* 254, 343, 406, 441, 809 and 868).
fetch_guard(cls) == cls \in ExceptionClasses

\* The exception that leaves a function whose body raised cls.
Escapes(cls) == IF fetch_guard(cls) THEN None ELSE Some(cls)

\* ---------------------------------------------------------- get_temperature
\* Whether the response is closed: non-200 (236), decoded (242), json()
\* raising (257, except Exception).
weather_closes(kind) == kind \in {"status", "badjson", "payload"}

\* A payload carries has_main (data['main']['temp'] and
\* data['weather'][0]['description'] exist), temp and desc.
get_temperature(out) ==
    LET open == StillOpen(out.kind # "transport", weather_closes(out.kind))
    IN  IF out.kind = "payload" /\ out.data.has_main
        THEN [temp |-> out.data.temp, desc |-> Some(out.data.desc), open |-> open,
              raises |-> None]
        ELSE [temp |-> TNull, desc |-> None, open |-> open,
              raises |-> IF out.kind = "status" THEN None ELSE Escapes(BodyRaises(out.kind))]

\* ------------------------------------------------------ get_forecast_summary
SecsPerDay == 86400
day_names == <<"Mon", "Tue", "Wed", "Thu", "Fri", "Sat", "Sun">>
\* time.localtime(t): the calendar day as a day number, and tm_wday
\* (day 0 of the epoch is a Thursday, tm_wday 3).
DayOf(t) == t \div SecsPerDay
WdayOf(t) == (DayOf(t) + 3) % 7
Abs(x) == IF x < 0 THEN -x ELSE x

forecast_closes(kind) == kind \in {"status", "badjson", "payload"}

\* `temp > current_high` of line 314 on two JSON values: a string against a
\* number raises TypeError; the one string of the model is not greater than
\* itself.
Incomparable(x, y) == x.t # y.t
Greater(x, y) == x.t = "number" /\ x.v > y.v

\* A test that lets a sample as near as the nearest so far take its place.
closer_or_equal(ts, now, time_diff, min_time_diff) ==
    ts >= now /\ (IsNone(min_time_diff) \/ time_diff <= Val(min_time_diff))
\* Line 318: `ts >= current_time and time_diff < min_time_diff`
\* (min_time_diff None for infinity).
closer(ts, now, time_diff, min_time_diff) ==
    ts >= now /\ (IsNone(min_time_diff) \/ time_diff < Val(min_time_diff))

\* A high that is the temperature of the day's last sample.
latest_temp(temp, current_high) == temp
\* Lines 313-315: highs[key] after a sample of temperature temp.
new_high(temp, current_high) ==
    IF current_high.t = "null" \/ Greater(temp, current_high) THEN temp ELSE current_high

\* The loop over forecast_list (lines 304-320), sample by sample.
\* acc: high1, high2 (highs[day1_key], highs[day2_key], TNull for None),
\* closest (closest_forecast_temp), min_diff (min_time_diff, None for
\* infinity), thrown (the comparison of line 314 raised).
RECURSIVE forecast_loop(_, _, _, _)
forecast_loop(list, now, hours_ahead, acc) ==
    IF list = <<>> \/ acc.thrown THEN acc
    ELSE LET f == Head(list)
         IN  IF IsNone(f.dt) THEN forecast_loop(Tail(list), now, hours_ahead, acc)
             ELSE
             LET ts == Val(f.dt)
                 key == DayOf(ts)
                 temp == f.temp
                 on1 == temp.t # "null" /\ key = DayOf(now + SecsPerDay)
                 on2 == temp.t # "null" /\ key = DayOf(now + 2 * SecsPerDay)
                 current_high == IF on1 THEN acc.high1 ELSE acc.high2
                 thrown == (on1 \/ on2) /\ current_high.t # "null"
                              /\ Incomparable(temp, current_high)
                 time_diff == Abs(ts - (now + hours_ahead * 3600))
                 nearer == closer(ts, now, time_diff, acc.min_diff)
             IN  IF thrown THEN [acc EXCEPT !.thrown = TRUE]
                 ELSE forecast_loop(Tail(list), now, hours_ahead,
                        [high1 |-> IF on1 THEN new_high(temp, acc.high1) ELSE acc.high1,
                         high2 |-> IF on2 THEN new_high(temp, acc.high2) ELSE acc.high2,
                         closest |-> IF nearer THEN temp ELSE acc.closest,
                         min_diff |-> IF nearer THEN Some(time_diff) ELSE acc.min_diff,
                         thrown |-> FALSE])

\* A payload carries `list`, the forecast samples [dt, temp]; now is
\* time.time() at line 293.  summary is None or the returned tuple.
get_forecast_summary(out, now, hours_ahead) ==
    LET open == StillOpen(out.kind # "transport", forecast_closes(out.kind))
        r == forecast_loop(out.data.list, now, hours_ahead,
                 [high1 |-> TNull, high2 |-> TNull, closest |-> TNull,
                  min_diff |-> None, thrown |-> FALSE])
    IN  IF out.kind # "payload"
        THEN [summary |-> None, open |-> open,
              raises |-> IF out.kind = "status" THEN None ELSE Escapes(BodyRaises(out.kind))]
        ELSE IF out.data.list = <<>>
        THEN [summary |-> None, open |-> open, raises |-> None]
        ELSE IF r.thrown
        THEN [summary |-> None, open |-> open, raises |-> Escapes("TypeError")]
        ELSE [summary |-> Some([forecast_temp |-> r.closest,
                                day1_initial |-> day_names[WdayOf(now + SecsPerDay) + 1] \o ":",
                                day1_high |-> r.high1,
                                day2_initial |-> day_names[WdayOf(now + 2 * SecsPerDay) + 1] \o ":",
                                day2_high |-> r.high2]),
              open |-> open, raises |-> None]

\* ------------------------------------------------------ get_temperature_text
\* cur is get_temperature's result, fs get_forecast_summary's, fc the
\* module-level fail_count.  round() of a value that is not a number raises
\* TypeError (lines 642, 652, 662, 663); then neither text nor fail_count is
\* assigned.  The degree sign of the text is written "o".  Result: raises,
\* text (the return value), forecast_line (the local of lines 661-667, ""
\* when they do not run) and fail_count.
get_temperature_text(cur, fs, fc) ==
    LET f == IF IsNone(fs) THEN TNull ELSE Val(fs).forecast_temp
        d1 == IF IsNone(fs) THEN TNull ELSE Val(fs).day1_high
        d2 == IF IsNone(fs) THEN TNull ELSE Val(fs).day2_high
        both == d1.t # "null" /\ d2.t # "null"
    IN  IF cur.temp.t # "null"
        THEN IF cur.temp.t = "string" \/ f.t = "string"
                \/ (both /\ (d1.t = "string" \/ d2.t = "string"))
             THEN [raises |-> Some("TypeError"), text |-> "", forecast_line |-> "",
                   fail_count |-> fc]
             ELSE LET temp_F == RoundTenths(cur.temp.v)
                      head == IF f.t # "null"
                              THEN ToString(temp_F) \o "oF -> " \o ToString(RoundTenths(f.v)) \o "oF"
                              ELSE ToString(temp_F) \o "oF >"
                      forecast_line ==
                          IF both
                          THEN Val(fs).day1_initial \o ToString(RoundTenths(d1.v)) \o "\n"
                               \o Val(fs).day2_initial \o ToString(RoundTenths(d2.v))
                          ELSE "No Forecast"
                  IN  [raises |-> None, text |-> head \o "\n" \o forecast_line,
                       forecast_line |-> forecast_line, fail_count |-> 0]
        ELSE [raises |-> None,
              text |-> IF fc + 1 > fail_threshold
                       THEN "Failed to fetch temperature data."
                       ELSE "Failed to get temperature.",
              forecast_line |-> "",
              fail_count |-> fc + 1]

\* ------------------------------------------------------ get_current_location
\* The primary services; each is read through its lat_key / lon_key.
services == <<"https://ipapi.co/json/">>

location_closes(kind) == kind \in {"status", "badjson", "payload"}

\* The loop over services (lines 375-412): the list `locations` of the
\* (lat, lon) pairs extracted, the responses left open and the exception
\* that leaves the loop.  A payload carries lat and lon (None when the key
\* is missing).
RECURSIVE locations_from(_, _, _, _)
locations_from(outs, i, locations, open) ==
    IF i > Len(services) THEN [locations |-> locations, open |-> open, raises |-> None]
    ELSE LET o == outs[i]
             open2 == open + StillOpen(o.kind # "transport", location_closes(o.kind))
             thrown == IF o.kind \in {"transport", "badjson"}
                       THEN Escapes(BodyRaises(o.kind)) ELSE None
         IN  IF ~IsNone(thrown)
             THEN [locations |-> locations, open |-> open2, raises |-> thrown]
             ELSE IF o.kind = "payload" /\ ~IsNone(o.data.lat) /\ ~IsNone(o.data.lon)
             THEN locations_from(outs, i + 1,
                      Append(locations, <<Val(o.data.lat), Val(o.data.lon)>>), open2)
             ELSE locations_from(outs, i + 1, locations, open2)

\* outs: the outcomes of the primary services; fallback: the outcome of
\* ip-api.com, whose payload carries status, lat and lon.
get_current_location(outs, fallback) ==
    LET p == locations_from(outs, 1, <<>>, 0)
        n == Len(p.locations)
        lats == [k \in 1..n |-> p.locations[k][1]]
        lons == [k \in 1..n |-> p.locations[k][2]]
        open2 == p.open + StillOpen(fallback.kind # "transport", location_closes(fallback.kind))
        thrown == IF fallback.kind \in {"transport", "badjson"}
                  THEN Escapes(BodyRaises(fallback.kind)) ELSE None
    IN  IF ~IsNone(p.raises)
        THEN [lat |-> None, lon |-> None, contacted_fallback |-> FALSE, open |-> p.open,
              raises |-> p.raises]
        ELSE IF n > 0
        THEN [lat |-> Some(SumSeq(lats) \div n), lon |-> Some(SumSeq(lons) \div n),
              contacted_fallback |-> FALSE, open |-> p.open, raises |-> None]
        ELSE IF fallback.kind = "payload" /\ fallback.data.status = "success"
        THEN [lat |-> fallback.data.lat, lon |-> fallback.data.lon,
              contacted_fallback |-> TRUE, open |-> open2, raises |-> None]
        ELSE [lat |-> None, lon |-> None, contacted_fallback |-> TRUE, open |-> open2,
              raises |-> thrown]

\* ------------------------------------- display.py: get_current_location
\* The primary services of src/display/display.py (lines 51-67).
display_services == <<"https://ipapi.co/json/", "https://ipinfo.io/json",
                      "http://ip-api.com/json/">>

\* The loop of display.py lines 69-87: every exception of the body
\* (requests.get, raise_for_status, json(), float()) is caught by
\* `except Exception: continue`.  A payload carries lat and lon, None when
\* the service's keys (for ipinfo.io its "loc" member) give no number.
RECURSIVE display_locations_from(_, _, _)
display_locations_from(outs, i, locations) ==
    IF i > Len(display_services) THEN locations
    ELSE LET o == outs[i]
         IN  IF o.kind = "payload" /\ ~IsNone(o.data.lat) /\ ~IsNone(o.data.lon)
             THEN display_locations_from(outs, i + 1,
                      Append(locations, <<Val(o.data.lat), Val(o.data.lon)>>))
             ELSE display_locations_from(outs, i + 1, locations)

\* display.py lines 42-106.  Result: lat, lon, contacted_fallback, raises.
display_get_current_location(outs, fallback) ==
    LET result(locations) ==
          LET n == Len(locations)
              lats == [k \in 1..n |-> locations[k][1]]
              lons == [k \in 1..n |-> locations[k][2]]
          IN  IF n > 0
              THEN [lat |-> Some(SumSeq(lats) \div n), lon |-> Some(SumSeq(lons) \div n),
                    contacted_fallback |-> FALSE, raises |-> None]
              ELSE IF fallback.kind = "payload" /\ fallback.data.status = "success"
              THEN [lat |-> fallback.data.lat, lon |-> fallback.data.lon,
                    contacted_fallback |-> TRUE, raises |-> None]
              ELSE [lat |-> None, lon |-> None, contacted_fallback |-> TRUE, raises |-> None]
    IN  Apply(result, display_locations_from(outs, 1, <<>>))

\* ------------------------------------------------------------ Python str
\* A str is the sequence of its characters, each a one-character string.
Digits == {"0", "1", "2", "3", "4", "5", "6", "7", "8", "9"}
DigitVal(c) == CHOOSE n \in 0..9 : ToString(n) = c

Contains(s, c) == \E i \in 1..Len(s) : s[i] = c
\* s.find(c) and s.rfind(c): 0-based, -1 when c does not occur.
find(s, c) ==
    IF Contains(s, c)
    THEN (CHOOSE i \in 1..Len(s) : s[i] = c /\ \A j \in 1..(i - 1) : s[j] # c) - 1
    ELSE -1
rfind(s, c) ==
    IF Contains(s, c)
    THEN (CHOOSE i \in 1..Len(s) : s[i] = c /\ \A j \in (i + 1)..Len(s) : s[j] # c) - 1
    ELSE -1
\* s[:n] and s[n:] for 0 <= n <= len(s)
Before(s, n) == SubSeq(s, 1, n)
From(s, n) == SubSeq(s, n + 1, Len(s))

\* s.split(c, 1) and s.split(c): the sequence of the parts.
Split1(s, c) ==
    IF Contains(s, c) THEN <<Before(s, find(s, c)), From(s, find(s, c) + 1)>> ELSE <<s>>
RECURSIVE Split(_, _)
Split(s, c) ==
    LET rest(tail) == Split(tail, c)
    IN  IF Contains(s, c)
        THEN <<Before(s, find(s, c))>> \o Apply(rest, From(s, find(s, c) + 1))
        ELSE <<s>>

\* s.isdigit(): not empty and digits only.
isdigit(s) == s # <<>> /\ \A i \in 1..Len(s) : s[i] \in Digits

RECURSIVE DigitsVal(_)
DigitsVal(s) ==
    IF s = <<>> THEN 0 ELSE DigitsVal(Before(s, Len(s) - 1)) * 10 + DigitVal(s[Len(s)])
RECURSIVE Strip(_)
Strip(s) ==
    IF s # <<>> /\ s[1] = " " THEN Strip(From(s, 1))
    ELSE IF s # <<>> /\ s[Len(s)] = " " THEN Strip(Before(s, Len(s) - 1))
    ELSE s
\* int(s): surrounding blanks and one sign are accepted around the digits;
\* None stands for the ValueError of anything else.
int(s) ==
    LET t == Strip(s)
        signed == t # <<>> /\ t[1] \in {"+", "-"}
        body == IF signed THEN From(t, 1) ELSE t
    IN  IF ~isdigit(body) THEN None
        ELSE IF signed /\ t[1] = "-" THEN Some(-DigitsVal(body))
        ELSE Some(DigitsVal(body))

\* -------------------------------------------------------- parse_iso_timestamp
\* A removal of offsets that knows '+' only.
time_part_clean_plus_only(time_part) ==
    IF Contains(time_part, "+")
    THEN LET parts == Split1(time_part, "+")
         IN  IF Len(parts) = 2 /\ Contains(parts[2], ":") THEN parts[1] ELSE time_part
    ELSE time_part

\* The time portion with a timezone offset removed (lines 717-737).
time_part_clean(time_part) ==
    IF Contains(time_part, "+")
    THEN LET parts == Split1(time_part, "+")
         IN  IF Len(parts) = 2 /\ Contains(parts[2], ":") THEN parts[1] ELSE time_part
    ELSE IF Contains(time_part, "-")
    THEN LET last_dash_pos == rfind(time_part, "-")
             after_dash == From(time_part, last_dash_pos + 1)
             tz_parts == Split(after_dash, ":")
         IN  IF last_dash_pos > 0 /\ Contains(after_dash, ":") /\ Len(tz_parts) = 2
                /\ isdigit(tz_parts[1]) /\ isdigit(tz_parts[2])
             THEN Before(time_part, last_dash_pos)
             ELSE time_part
    ELSE time_part

\* Hour, minute and second where one component is enough: the minute
\* defaults to 0 as the second does.
time_fields_hour_only(time_parts) ==
    IF time_parts = <<>> THEN None
    ELSE IF \E k \in 1..Len(time_parts) : k <= 3 /\ IsNone(time_parts[k]) THEN None
    ELSE Some(<<Val(time_parts[1]),
                IF Len(time_parts) > 1 THEN Val(time_parts[2]) ELSE 0,
                IF Len(time_parts) > 2 THEN Val(time_parts[3]) ELSE 0>>)

\* Lines 744-752: hour, minute and second of the values int() gives for
\* time_part_clean.split(':'); None below two components (line 748) and
\* for the ValueError of int().
time_fields(time_parts) ==
    IF Len(time_parts) < 2 THEN None
    ELSE IF \E k \in 1..Len(time_parts) : k <= 3 /\ IsNone(time_parts[k]) THEN None
    ELSE Some(<<Val(time_parts[1]), Val(time_parts[2]),
                IF Len(time_parts) > 2 THEN Val(time_parts[3]) ELSE 0>>)

\* Lines 699-761: None, or Some of (year, month, day, hour, minute, second).
\* Every exception of the body (the ValueError of int(), of unpacking a
\* date that has not three parts) ends in `return None` (line 761).
parse_iso_timestamp(iso_str) ==
    LET \* 702-703
        utc(s) == IF s # <<>> /\ s[Len(s)] = "Z"
                  THEN Before(s, Len(s) - 1) \o <<"+", "0", "0", ":", "0", "0">>
                  ELSE s
        \* 706-710: <<date_part, time_part>>
        date_time(s) == IF Contains(s, "T") THEN Split1(s, "T")
                        ELSE IF Contains(s, " ") THEN SubSeq(Split(s, " "), 1, 2)
                        ELSE <<s, s>>
        \* 740-741
        no_micro(clean) == IF Contains(clean, ".") THEN Split(clean, ".")[1] ELSE clean
        \* 713 and 744: <<date_part.split('-'), time_part_clean.split(':')>>
        fields(dt) == <<Split(dt[1], "-"), Split(Apply(no_micro, time_part_clean(dt[2])), ":")>>
        \* 713, 745-754 on the values of int()
        numbers(f) == <<[k \in 1..Len(f[1]) |-> int(f[1][k])],
                        [k \in 1..Len(f[2]) |-> int(f[2][k])]>>
        tuple(n) ==
            LET ymd == n[1]
                hms == time_fields(n[2])
            IN  IF Len(ymd) # 3 \/ \E k \in 1..3 : IsNone(ymd[k]) THEN None
                ELSE IF IsNone(hms) THEN None
                ELSE Some(<<Val(ymd[1]), Val(ymd[2]), Val(ymd[3])>> \o Val(hms))
    IN  Apply(tuple, Apply(numbers, Apply(fields, Apply(date_time, Apply(utc, iso_str)))))

\* ----------------------------------------------------------- request URLs
\* The concatenation of the first n members of a sequence of strs.
RECURSIVE Concat(_, _)
Concat(ss, n) == IF n = 0 THEN <<>> ELSE Concat(ss, n - 1) \o ss[n]

\* s.replace(old, new) for a one-character old.
replace(s, old, new) ==
    LET pieces(t) == [k \in 1..Len(t) |-> IF t[k] = old THEN new ELSE <<t[k]>>]
        joined(p) == Concat(p, Len(p))
    IN  Apply(joined, Apply(pieces, s))

\* Lines 50-64.
url_encode(s) ==
    LET space(t) == replace(t, " ", <<"%", "2", "0">>)
        colon(t) == replace(t, ":", <<"%", "3", "A">>)
        slash(t) == replace(t, "/", <<"%", "2", "F">>)
        question(t) == replace(t, "?", <<"%", "3", "F">>)
        hash(t) == replace(t, "#", <<"%", "2", "3">>)
        open(t) == replace(t, "[", <<"%", "5", "B">>)
        close(t) == replace(t, "]", <<"%", "5", "D">>)
    IN  Apply(close, Apply(open, Apply(hash, Apply(question,
            Apply(slash, Apply(colon, Apply(space, s)))))))

\* '&'.join(query_parts)
RECURSIVE JoinAmp(_)
JoinAmp(query_parts) ==
    IF query_parts = <<>> THEN <<>>
    ELSE IF Len(query_parts) = 1 THEN query_parts[1]
    ELSE JoinAmp(SubSeq(query_parts, 1, Len(query_parts) - 1)) \o <<"&">>
           \o query_parts[Len(query_parts)]

\* Line 224: the f-string of get_temperature; lat, lon and api_key are the
\* texts str() gives for the arguments.
weather_url(lat, lon, api_key) ==
    <<"h", "t", "t", "p", "s", ":", "/", "/", "a", "p", "i", ".", "o", "p", "e", "n",
      "w", "e", "a", "t", "h", "e", "r", "m", "a", "p", ".", "o", "r", "g", "/", "d",
      "a", "t", "a", "/", "2", ".", "5", "/", "w", "e", "a", "t", "h", "e", "r", "?",
      "l", "a", "t", "=">>
      \o lat \o <<"&", "l", "o", "n", "=">> \o lon \o <<"&", "a", "p", "p", "i", "d", "=">> \o api_key
      \o <<"&", "u", "n", "i", "t", "s", "=", "i", "m", "p", "e", "r", "i", "a", "l">>

\* Line 273: the f-string of get_forecast_summary.
forecast_url(lat, lon, api_key) ==
    <<"h", "t", "t", "p", "s", ":", "/", "/", "a", "p", "i", ".", "o", "p", "e", "n",
      "w", "e", "a", "t", "h", "e", "r", "m", "a", "p", ".", "o", "r", "g", "/", "d",
      "a", "t", "a", "/", "2", ".", "5", "/", "f", "o", "r", "e", "c", "a", "s", "t",
      "?", "l", "a", "t", "=">>
      \o lat \o <<"&", "l", "o", "n", "=">> \o lon \o <<"&", "a", "p", "p", "i", "d", "=">> \o api_key
      \o <<"&", "u", "n", "i", "t", "s", "=", "i", "m", "p", "e", "r", "i", "a", "l", "&", "c", "n", "t", "=", "1", "2">>

\* Lines 32-34 and 784-790: the members of params, the values as str()
\* gives them.
route == <<"R", "e", "d">>
direction_id == <<"1">>
params(stop_id) ==
    << <<<<"f", "i", "l", "t", "e", "r", "[", "r", "o", "u", "t", "e", "]">>, route>>,
       <<<<"f", "i", "l", "t", "e", "r", "[", "s", "t", "o", "p", "]">>, stop_id>>,
       <<<<"f", "i", "l", "t", "e", "r", "[", "d", "i", "r", "e", "c", "t", "i", "o", "n", "_", "i", "d", "]">>, direction_id>>,
       <<<<"s", "o", "r", "t">>, <<"a", "r", "r", "i", "v", "a", "l", "_", "t", "i", "m", "e">>>>,
       <<<<"p", "a", "g", "e", "[", "l", "i", "m", "i", "t", "]">>, <<"1", "0">>>> >>

\* Lines 780 and 793-797.
url_with_params(stop_id) ==
    LET query_parts == [k \in 1..Len(params(stop_id)) |->
                          url_encode(params(stop_id)[k][1]) \o <<"=">>
                            \o url_encode(params(stop_id)[k][2])]
    IN  <<"h", "t", "t", "p", "s", ":", "/", "/", "a", "p", "i", "-", "v", "3", ".", "m",
          "b", "t", "a", ".", "c", "o", "m", "/", "p", "r", "e", "d", "i", "c", "t", "i",
          "o", "n", "s">>
          \o <<"?">> \o JoinAmp(query_parts)

\* Lines 79-84: the members of time_services as strs, requested as they are
\* (line 116).
service_url ==
    << <<"h", "t", "t", "p", ":", "/", "/", "t", "i", "m", "e", "a", "p", "i", ".", "i",
         "o", "/", "a", "p", "i", "/", "T", "i", "m", "e", "/", "c", "u", "r", "r", "e",
         "n", "t", "/", "z", "o", "n", "e", "?", "t", "i", "m", "e", "Z", "o", "n", "e",
         "=", "A", "m", "e", "r", "i", "c", "a", "/", "N", "e", "w", "_", "Y", "o", "r",
         "k">>,
       <<"h", "t", "t", "p", ":", "/", "/", "w", "o", "r", "l", "d", "c", "l", "o", "c",
         "k", "a", "p", "i", ".", "c", "o", "m", "/", "a", "p", "i", "/", "j", "s", "o",
         "n", "/", "u", "t", "c", "/", "n", "o", "w">> >>

\* ------------------------------------------------ sync_time_from_internet
time_services == <<"http://timeapi.io/api/Time/current/zone?timeZone=America/New_York",
                   "http://worldclockapi.com/api/json/utc/now">>

\* Whether the response of one service is closed on the path its outcome takes:
\* non-200 (line 127), json() raising (line 201, outer except), decoded (131).
sync_closes(kind) == kind \in {"status", "badjson", "payload"}

\* The members of a time-service payload that the code looks at; each is
\* None (absent or null) or Some str.
TimeFields == <<"datetime", "dateTime", "currentLocalTime", "currentDateTime">>

\* A lookup that knows the member "datetime" only.
datetime_str_first_name(data) ==
    IF ~IsNone(data.datetime) /\ Val(data.datetime) # <<>> THEN data.datetime ELSE None

\* Lines 135-141: a or b or c or d gives the first operand that is truthy;
\* None and "" are not.  None stands for the value that `not datetime_str`
\* rejects.
datetime_str(data) ==
    LET truthy(v) == ~IsNone(v) /\ Val(v) # <<>>
    IN  IF truthy(data.datetime) THEN data.datetime
        ELSE IF truthy(data.dateTime) THEN data.dateTime
        ELSE IF truthy(data.currentLocalTime) THEN data.currentLocalTime
        ELSE IF truthy(data.currentDateTime) THEN data.currentDateTime
        ELSE None

\* Lines 150-170: the fields of time_struct read from the string, None where
\* the code goes on to the next service: no 'T' (line 154), or the ValueError
\* of int() and of unpacking other than three parts (caught at line 194).
time_struct(str) ==
    LET \* 151: <<date_part, time_part>>
        date_time(s) == Split1(s, "T")
        \* 157-159
        no_micro(s) == Split(s, ".")[1]
        no_plus(s) == Split(s, "+")[1]
        no_minus(s) == IF ~Contains(Before(s, IF Len(s) < 10 THEN Len(s) ELSE 10), "-")
                       THEN Split(s, "-")[1]
                       ELSE Before(s, rfind(s, "-"))
        \* 162 and 165
        fields(dt) == <<Split(dt[1], "-"),
                        Split(Apply(no_minus, Apply(no_plus, Apply(no_micro, dt[2]))), ":")>>
        numbers(f) == <<[k \in 1..Len(f[1]) |-> int(f[1][k])],
                        [k \in 1..Len(f[2]) |-> int(f[2][k])]>>
        tuple(n) ==
            IF Len(n[1]) # 3 \/ \E k \in 1..Len(n[1]) : IsNone(n[1][k]) THEN None
            ELSE IF Len(n[2]) # 3 \/ \E k \in 1..Len(n[2]) : IsNone(n[2][k]) THEN None
            ELSE Some(<<Val(n[1][1]), Val(n[1][2]), Val(n[1][3]),
                        Val(n[2][1]), Val(n[2][2]), Val(n[2][3])>>)
    IN  IF ~Contains(str, "T") THEN None
        ELSE Apply(tuple, Apply(numbers, Apply(fields, Apply(date_time, str))))

\* time.mktime of (year, month, day, hour, minute, second) on the device
\* clock, whose zero is 1970-01-01 00:00:00, for the days of its first month.
mktime(t) == (t[3] - 1) * SecsPerDay + t[4] * 3600 + t[5] * 60 + t[6]

\* Lines 112-170 for the outcome o of one service: parsed (the fields read
\* from its payload, None when it gave none), open (1 when its response
\* stays unclosed), thrown (the exception its handling raises).  A payload
\* carries the members of TimeFields.
time_service(o) ==
    LET str == IF o.kind = "payload" THEN datetime_str(o.data) ELSE None
        result(parsed) ==
            [parsed |-> parsed,
             open |-> StillOpen(o.kind # "transport", sync_closes(o.kind)),
             thrown |-> IF o.kind \in {"transport", "badjson"}
                        THEN Some(BodyRaises(o.kind))
                        ELSE IF ~IsNone(str) /\ Contains(Val(str), "T") /\ IsNone(parsed)
                        THEN Some("ValueError")
                        ELSE None]
    IN  Apply(result, IF IsNone(str) THEN None ELSE time_struct(Val(str)))

\* An RTC that is written before the attempt is known to have succeeded.
rtc_set_always(rtc, fields) == [ok |-> rtc = "ok", set_clock |-> Some(fields)]

\* Lines 173-192: r.datetime = time_struct and True; False when rtc cannot
\* be imported or the assignment raises.  rtc is what the try block does:
\* "ok", "ImportError" or "error".
rtc_set(rtc, fields) ==
    IF rtc = "ok" THEN [ok |-> TRUE, set_clock |-> Some(fields)]
    ELSE [ok |-> FALSE, set_clock |-> None]

\* The for loop over time_services from service i on; served[i] is
\* time_service of the outcome of service i.
\* Result: ok (the return value), set_clock (the fields written to the RTC),
\* contacted (the services requested, in the order of the requests), open
\* (responses left unclosed), raises (the exception that leaves the function).
\* A loop that goes on to the later services after one has set the clock.
RECURSIVE sync_from_every(_, _, _, _)
sync_from_every(served, rtc, i, open) ==
    IF i > Len(time_services)
    THEN [ok |-> FALSE, set_clock |-> None, contacted |-> time_services,
          open |-> open, raises |-> None]
    ELSE LET rest == sync_from_every(served, rtc, i + 1, open + served[i].open)
         IN  IF ~IsNone(served[i].parsed) /\ rtc = "ok" /\ ~rest.ok
             THEN [rest EXCEPT !.ok = TRUE, !.set_clock = served[i].parsed]
             ELSE rest

RECURSIVE sync_from(_, _, _, _)
sync_from(served, rtc, i, open) ==
    IF i > Len(time_services)
    THEN [ok |-> FALSE, set_clock |-> None, contacted |-> SubSeq(time_services, 1, i - 1),
          open |-> open, raises |-> None]
    ELSE LET s == served[i]
         IN  IF ~IsNone(s.parsed)
             THEN [ok |-> rtc_set(rtc, Val(s.parsed)).ok,
                   set_clock |-> rtc_set(rtc, Val(s.parsed)).set_clock,
                   contacted |-> SubSeq(time_services, 1, i),
                   open |-> open + s.open, raises |-> None]
             ELSE IF ~IsNone(s.thrown) /\ ~IsNone(Escapes(Val(s.thrown)))
             THEN [ok |-> FALSE, set_clock |-> None,
                   contacted |-> SubSeq(time_services, 1, i),
                   open |-> open + s.open, raises |-> Escapes(Val(s.thrown))]
             ELSE sync_from(served, rtc, i + 1, open + s.open)

\* outs[i] is the outcome of service i.
sync_time_from_internet(outs, rtc) ==
    sync_from([i \in 1..Len(outs) |-> time_service(outs[i])], rtc, 1, 0)

\* ------------------------------------------------ get_redline_departure_text
\* close() runs on the non-200 path (815) and after json() returned (819);
\* the except clause of line 868 does not touch resp.
transit_closes(kind) == kind \in {"status", "payload"}

\* (ya, ma, da) > (yc, mc, dc): tuples compare lexicographically.
DateLater(a, c) ==
    \/ a[1] > c[1]
    \/ a[1] = c[1] /\ a[2] > c[2]
    \/ a[1] = c[1] /\ a[2] = c[2] /\ a[3] > c[3]

\* A difference that is never reported below zero.
minutes_until_clamped(arrival_tuple, current_time_tuple) ==
    IF IsNone(arrival_tuple) \/ IsNone(current_time_tuple) THEN None
    ELSE LET at == Val(arrival_tuple)
             ct == Val(current_time_tuple)
             diff == (IF DateLater(at, ct) THEN at[4] * 60 + at[5] + 24 * 60
                      ELSE at[4] * 60 + at[5]) - (ct[4] * 60 + ct[5])
         IN  Some(IF diff < 0 THEN 0 ELSE diff)

\* _minutes_until (lines 828-840) on two optional 6-tuples.
minutes_until(arrival_tuple, current_time_tuple) ==
    IF IsNone(arrival_tuple) \/ IsNone(current_time_tuple) THEN None
    ELSE LET at == Val(arrival_tuple)
             ct == Val(current_time_tuple)
             arrival_min == at[4] * 60 + at[5]
             now_min == ct[4] * 60 + ct[5]
         IN  Some((IF DateLater(at, ct) THEN arrival_min + 24 * 60 ELSE arrival_min) - now_min)

\* The timestamp read from arrival_time only.
arrival_time_only(prediction) ==
    IF prediction.attributes # "object" THEN None
    ELSE IF ~IsNone(prediction.arrival_time) /\ Val(prediction.arrival_time) # <<>>
    THEN prediction.arrival_time
    ELSE None

\* `attrs.get("arrival_time") or attrs.get("departure_time")` (line 851): a
\* prediction carries attributes ("object", "missing" or "null") and the two
\* optional timestamps; an empty str counts as absent.
Falsy(o) == IsNone(o) \/ Val(o) = <<>>
arrival_time_str(prediction) ==
    IF prediction.attributes # "object" THEN None
    ELSE IF ~Falsy(prediction.arrival_time) THEN prediction.arrival_time
    ELSE IF ~Falsy(prediction.departure_time) THEN prediction.departure_time
    ELSE None

\* The loop over predictions_list (lines 849-861) from the list's head on.
\* Result: train_times, examined (predictions the loop has looked at) and
\* thrown (attributes null: None has no get, AttributeError).
\* The loop without `if len(train_times) >= 2: break`.
RECURSIVE train_times_from_all(_, _, _, _)
train_times_from_all(predictions, now_t, train_times, examined) ==
    IF predictions = <<>>
    THEN [train_times |-> train_times, examined |-> examined, thrown |-> FALSE]
    ELSE LET prediction == Head(predictions)
             arrival_tuple(str) == IF IsNone(str) THEN None ELSE parse_iso_timestamp(Val(str))
             minutes(at) == minutes_until(at, Some(now_t))
             step(m) ==
               IF prediction.attributes = "null"
               THEN [train_times |-> train_times, examined |-> examined + 1, thrown |-> TRUE]
               ELSE train_times_from_all(Tail(predictions), now_t,
                        IF ~IsNone(m) /\ Val(m) >= min_lead_minutes
                        THEN Append(train_times, Val(m)) ELSE train_times,
                        examined + 1)
         IN  Apply(step, Apply(minutes, Apply(arrival_tuple, arrival_time_str(prediction))))

RECURSIVE train_times_from(_, _, _, _)
train_times_from(predictions, now_t, train_times, examined) ==
    IF predictions = <<>>
    THEN [train_times |-> train_times, examined |-> examined, thrown |-> FALSE]
    ELSE LET prediction == Head(predictions)
             \* 852-856
             arrival_tuple(str) == IF IsNone(str) THEN None ELSE parse_iso_timestamp(Val(str))
             \* 857
             minutes(at) == minutes_until(at, Some(now_t))
             \* 850 (attrs of a null attributes member), 858-861
             step(m) ==
               IF prediction.attributes = "null"
               THEN [train_times |-> train_times, examined |-> examined + 1, thrown |-> TRUE]
               ELSE IF ~IsNone(m) /\ Val(m) >= min_lead_minutes
               THEN LET tt == Append(train_times, Val(m))
                    IN  IF Len(tt) >= max_train_times
                        THEN [train_times |-> tt, examined |-> examined + 1, thrown |-> FALSE]
                        ELSE train_times_from(Tail(predictions), now_t, tt, examined + 1)
               ELSE train_times_from(Tail(predictions), now_t, train_times, examined + 1)
         IN  Apply(step, Apply(minutes, Apply(arrival_tuple, arrival_time_str(prediction))))

\* A text that answers an empty list with the message of a failed request.
departure_text_no_data(train_times) ==
    IF train_times = <<>> THEN "No MBTA data"
    ELSE JoinInts(SubSeq(train_times, 1, IF Len(train_times) < max_train_times
                                         THEN Len(train_times) ELSE max_train_times), ",")
         \o " mins"

\* Lines 862-866: the text for the minutes the loop collected.
departure_text(train_times) ==
    IF train_times = <<>> THEN "No arrival times available."
    ELSE JoinInts(SubSeq(train_times, 1, IF Len(train_times) < max_train_times
                                         THEN Len(train_times) ELSE max_train_times), ",")
         \o " mins"

\* A payload carries is_null (the body is JSON null) and predictions
\* (data["data"]); now_t is time.localtime() at line 842.
\* Result: text, open, raises, and the loop's train_times and examined.
get_redline_departure_text(out, now_t) ==
    LET open == StillOpen(out.kind # "transport", transit_closes(out.kind))
        result(loop) ==
          LET thrown == IF out.kind \in {"transport", "badjson"} THEN Some(BodyRaises(out.kind))
                        ELSE IF loop.thrown THEN Some("AttributeError")
                        ELSE None
              raises == IF IsNone(thrown) THEN None ELSE Escapes(Val(thrown))
              text ==
                IF ~IsNone(raises) THEN ""
                ELSE IF ~IsNone(thrown) THEN "No MBTA data"
                ELSE IF out.kind = "status" THEN "MBTA API status " \o ToString(out.code)
                ELSE IF out.data.is_null THEN "No MBTA data"
                ELSE IF out.data.predictions = <<>> THEN "No inbound Red Line trains scheduled."
                ELSE departure_text(loop.train_times)
          IN  [text |-> text, open |-> open, raises |-> raises,
               train_times |-> loop.train_times, examined |-> loop.examined]
    IN  Apply(result, IF out.kind = "payload" /\ ~out.data.is_null
                      THEN train_times_from(out.data.predictions, now_t, <<>>, 0)
                      ELSE [train_times |-> <<>>, examined |-> 0, thrown |-> FALSE])

\* time.localtime(t) as (year, month, day, hour, minute, second), for the
\* first month of the device clock, whose zero is 1970-01-01 00:00:00.
localtime(t) ==
    <<1970, 1, 1 + DayOf(t), (t % SecsPerDay) \div 3600, (t % 3600) \div 60, t % 60>>

\* ----------------------------------------------------- get_pretty_time_text
\* The clock reading formatted as "h:mmam Day"; its digits are not modelled.
get_pretty_time_text == "<h:mm am/pm Day>"

\* ============================================================ display_monitor
VARIABLES
    pc,                           \* position of the loop inside the tick
    state,                        \* rotation index
    location_found, lat, lon,
    last_temperature_query_time, last_redline_query_time, last_time_sync_time,
    last_temperature_text, last_redline_text,
    fail_count,
    cur_time,                     \* the local cur_time of line 983
    label,                        \* info_text_label: [text, color]
    clock,                        \* the device clock, time.time()
    exc,                          \* the exception travelling to the outer except
    delay,                        \* seconds the network calls of the run have taken
    faults,                       \* calls of the run that did not produce their value
    \* observations of the run (no code reads them)
    ticks,                        \* iterations completed
    calls,                        \* functions invoked in the current tick, in order
    decision,                     \* per source: the refresh test made in this tick
                                  \*   (at: the clock reading tested, gap: reading minus
                                  \*   last fetch time, cached: a text was held, prev: stamp)
    stamp,                        \* per source: clock reading of its last returned call
    weather_succeeded,            \* get_temperature_text has produced a temperature
    transit_succeeded,            \* get_redline_departure_text has read an answer of the API
    shown,                        \* rotation index rendered in this tick (0: none yet)
    window,                       \* shown of the last three completed ticks
    unclosed,                     \* functions that returned in this tick with a response open
    probe                         \* the last direct call of a function: its name,
                                  \*   arguments and result (no code reads it)

vars == <<pc, state, location_found, lat, lon, last_temperature_query_time,
          last_redline_query_time, last_time_sync_time, last_temperature_text,
          last_redline_text, fail_count, cur_time, label, clock, exc, delay, faults,
          ticks, calls, decision, stamp, weather_succeeded,
          transit_succeeded, shown, window, unclosed,
          probe>>

loopvars == <<state, location_found, lat, lon, last_temperature_query_time,
              last_redline_query_time, last_time_sync_time, last_temperature_text,
              last_redline_text, fail_count, cur_time, label>>

\* ---------------------------------------------------------- environment
FetchDurs == {d \in 0..FetchDurMax : delay + d <= MaxDelay}
\* Largest device-clock reading explored.
MaxClock == 13000
\* The loop is entered just after boot, or 5990 s of device clock after the
\* module was imported (the boot-time sync may have set the clock forward).
StartOffsets == {0, 5990}

\* The outcomes drawn in the loop: for every function one outcome of each
\* class of result it has (a value, its unavailable value, an exception,
\* a response left open).
LocationOuts ==
    { Transport, BadStatus(429),
      Payload([lat |-> Some(4237), lon |-> Some(-7111)]) }
FallbackOuts ==
    { BadJson,
      Payload([status |-> "success", lat |-> None, lon |-> Some(-7111)]),
      Payload([status |-> "success", lat |-> Some(4237), lon |-> Some(-7111)]) }
WeatherOuts ==
    { Transport,
      Payload([has_main |-> TRUE, temp |-> TStr, desc |-> "clear sky"]),
      Payload([has_main |-> TRUE, temp |-> TNum(725), desc |-> "clear sky"]) }
Sample(dt, temp) == [dt |-> Some(dt), temp |-> temp]
ForecastOuts(now) ==
    { BadStatus(401),
      \* samples of today, tomorrow and the day after
      Payload([list |-> << Sample(now + 3 * 3600, TNum(688)),
                           Sample(now + 6 * 3600, TNum(701)),
                           Sample(now + SecsPerDay, TNum(700)),
                           Sample(now + SecsPerDay + 3 * 3600, TNum(750)),
                           Sample(now + 2 * SecsPerDay, TNum(600)) >>]) }
\* Timestamps as the MBTA API writes them: ISO 8601 with a zone suffix.
Digits2(n) == <<ToString(n \div 10), ToString(n % 10)>>
Digits4(n) == Digits2(n \div 100) \o Digits2(n % 100)
ZoneEST == <<"-", "0", "5", ":", "0", "0">>
ZoneUTC == <<"Z">>
IsoStamp(t, zone) ==
    Digits4(t[1]) \o <<"-">> \o Digits2(t[2]) \o <<"-">> \o Digits2(t[3]) \o <<"T">>
      \o Digits2(t[4]) \o <<":">> \o Digits2(t[5]) \o <<":">> \o Digits2(t[6]) \o zone
Prediction(arrival, departure) ==
    [attributes |-> "object", arrival_time |-> arrival, departure_time |-> departure]

\* The answers of the MBTA API in the loop: no connection, a body that is
\* not JSON, and predictions sorted by arrival: one at 00:05, one at 04:00,
\* one with no time, one leaving at 00:10 the next day, one at 05:00.
TransitOuts ==
    { Transport, BadJson,
      Payload([is_null |-> FALSE,
               predictions |->
                 << Prediction(Some(IsoStamp(<<1970, 1, 1, 0, 5, 0>>, ZoneEST)), None),
                    Prediction(Some(IsoStamp(<<1970, 1, 1, 4, 0, 0>>, ZoneEST)), None),
                    Prediction(None, None),
                    Prediction(None, Some(IsoStamp(<<1970, 1, 2, 0, 10, 0>>, ZoneUTC))),
                    Prediction(Some(IsoStamp(<<1970, 1, 1, 5, 0, 0>>, ZoneEST)), None) >>]) }
\* A payload with one member of TimeFields set.
NoTime == [datetime |-> None, dateTime |-> None, currentLocalTime |-> None,
           currentDateTime |-> None]
\* The services answer with the fields of their clock, seven digits of
\* fraction after the seconds (timeapi.io names the member dateTime).
Fraction == <<".", "1", "2", "3", "4", "5", "6", "7">>
SyncOuts(now) ==
    { Transport, Payload(NoTime) } \cup
    { Payload([NoTime EXCEPT !.dateTime = Some(IsoStamp(localtime(now + j), Fraction))]) :
        j \in {k \in {-ClockJump, 0, ClockJump} : now + k >= 0 /\ now + k <= MaxClock} }
RtcOutcomes == {"ok", "ImportError", "error"}
\* time.mktime((2026, 5, 29, ...)) on the scale of the model's clock: the
\* target date lies 45 days after the device clock's zero.
target_time == 3888000

\* ----------------------------------------------------------------- Init
NoDecision == [weather |-> None, transit |-> None, sync |-> None]
NoProbe == [fn |-> "none"]

Init ==
    /\ pc = "locate"
    /\ state = 1
    /\ location_found = FALSE
    /\ lat = None
    /\ lon = None
    /\ last_temperature_query_time = 0
    /\ last_redline_query_time = 0
    /\ last_time_sync_time = BootClock
    /\ last_temperature_text = ""
    /\ last_redline_text = ""
    /\ fail_count = 0
    /\ cur_time = 0
    /\ label = [text |-> "", color |-> DESCRIPTION_COLOR]
    /\ clock \in {BootClock + o : o \in StartOffsets}
    /\ exc = None
    /\ delay = 0
    /\ faults = 0
    /\ ticks = 0
    /\ calls = <<>>
    /\ decision = NoDecision
    /\ stamp = [weather |-> None, transit |-> None, sync |-> None,
                real |-> [weather |-> None, transit |-> None], moved |-> {}]
    /\ weather_succeeded = FALSE
    /\ transit_succeeded = FALSE
    /\ shown = 0
    /\ window = <<>>
    /\ unclosed = {}
    /\ probe = NoProbe

\* Seconds that have really passed since display_monitor was entered: the
\* sleeps of line 1063 and the time the network calls took.  A resync moves
\* the device clock, not this.
Elapsed == ticks * interval_seconds + delay

\* The directions in which a written clock reading moved the device clock.
Moved(from, to) ==
    IF to > from THEN {"forwards"} ELSE IF to < from THEN {"backwards"} ELSE {}

\* ------------------------------------------------- the loop's decisions
\* A refresh test that also fires when exactly the interval has elapsed.
DueAtInterval(now, last, interval) == now - last >= interval

\* The refresh test `now - last > interval` of lines 974, 984 and 992.
Due(now, last, interval) == now - last > interval

\* A loop that resolves the location in every tick.
AlwaysNeedsLocation(found) == TRUE

\* `if (not location_found)` of line 948.
NeedsLocation(found) == ~found

\* A boundary written `except KeyError`.
CatchesKeyErrorOnly(kind) == kind = "KeyError"

\* The outer boundary `except Exception` of line 1059.
Catches(kind) == kind \in ExceptionClasses

\* An iteration that resynchronises the clock before the transit refresh.
FollowsSyncFirst(p) ==
    CASE p = "locate" -> "weather"
      [] p = "weather" -> "sync"
      [] p = "sync" -> "transit"
      [] p = "transit" -> "render"
      [] p = "render" -> "sleep"
      [] p = "sleep" -> "locate"

\* The order of the statements of one iteration (lines 948-1063).
Follows(p) ==
    CASE p = "locate" -> "weather"
      [] p = "weather" -> "transit"
      [] p = "transit" -> "sync"
      [] p = "sync" -> "render"
      [] p = "render" -> "sleep"
      [] p = "sleep" -> "locate"

\* Lines 977-978: what a returned get_temperature_text leaves in
\* last_temperature_text and last_temperature_query_time.
refreshed_weather(text, now) == [text |-> text, time |-> now]

\* The weather locals of the loop and the module's fail_count (lines 35,
\* 938, 941), none of which lines 983-999 assign.
WeatherKept ==
    [text |-> last_temperature_text, time |-> last_temperature_query_time,
     fail_count |-> fail_count]

\* A transit refresh that counts its failures in the module's fail_count.
refreshed_transit_counting(text, now, kept) ==
    [text |-> "MBTA:\n" \o text, time |-> now,
     kept |-> [kept EXCEPT !.fail_count = IF text = "No MBTA data" THEN @ + 1 ELSE @]]

\* Lines 987-988: what a transit refresh leaves in last_redline_text and
\* last_redline_query_time, and (kept) in the weather locals and fail_count,
\* which get_redline_departure_text (lines 764-871) does not write.
refreshed_transit(text, now, kept) ==
    [text |-> "MBTA:\n" \o text, time |-> now, kept |-> kept]

\* An attempt that stamps its time whether or not it succeeded.
sync_stamp_always(time_synced, now) == now

\* Lines 994-999: last_time_sync_time after an attempt.
sync_stamp(time_synced, now) == IF time_synced THEN now ELSE 0

\* int(x / y): the quotient truncated towards zero.
IntDiv(x, y) == IF x >= 0 THEN x \div y ELSE -((-x) \div y)

\* Lines 1015-1039: the countdown text and colour at clock reading now.
countdown(now) ==
    LET days == IntDiv(target_time - now, SecsPerDay) + 1
        days_left == IF days < 0 THEN 0 ELSE days
    IN  [text |-> ToString(days_left) \o " days\nleft until" \o "\n5/29/26",
         color |-> IF days_left > 90 THEN RED_COLOR
                   ELSE IF days_left > 60 THEN YELLOW_COLOR
                   ELSE IF days_left < 30 THEN GREEN_COLOR
                   ELSE YELLOW_COLOR]

\* A rendering whose Temperature state ignores location_found.
render_ignoring_location(st, found, temperature_text, redline_text, now) ==
    LET r == IF st = 1 THEN [text |-> temperature_text, color |-> DESCRIPTION_COLOR]
             ELSE IF st = 2 THEN [text |-> redline_text, color |-> RED_COLOR]
             ELSE IF st = 3 THEN countdown(now)
             ELSE [text |-> "Unknown state", color |-> RED_COLOR]
    IN  IF st # 1 /\ st # 3
        THEN [text |-> r.text \o "\n" \o get_pretty_time_text, color |-> r.color]
        ELSE r

\* Lines 1000-1051: the text and colour of rotation index st.
render(st, found, temperature_text, redline_text, now) ==
    LET r == IF st = 1
             THEN IF found
                  THEN [text |-> temperature_text, color |-> DESCRIPTION_COLOR]
                  ELSE [text |-> "no Temp avail", color |-> RED_COLOR]
             ELSE IF st = 2 THEN [text |-> redline_text, color |-> RED_COLOR]
             ELSE IF st = 3 THEN countdown(now)
             ELSE [text |-> "Unknown state", color |-> RED_COLOR]
    IN  IF st # 1 /\ st # 3
        THEN [text |-> r.text \o "\n" \o get_pretty_time_text, color |-> r.color]
        ELSE r

\* What the client of a source did when the tick invoked it: failed (its
\* fetch gave no value) and text (the text it returned, None when it raised).
Fetched(failed, text) == [failed |-> failed, text |-> text]

\* The refresh test of a source (lines 974 and 984) as the tick made it: at
\* (the clock reading tested), gap (reading minus last fetch time), cached
\* (a text was held), prev (the source's stamp), fetched (None when the
\* client was not invoked).
Tested(now, last, text, prev, fetched) ==
    [at |-> now, gap |-> now - last, cached |-> text # "", prev |-> prev,
     fetched |-> fetched]

\* Lines 1055-1057.
\* Lines 1055-1057 without the wrap of lines 1056-1057.
next_state_no_wrap(st) == st + 1
next_state(st) == IF st + 1 > max_state THEN 1 ELSE st + 1

Leaks(name, open) == IF open > 0 THEN {name} ELSE {}

\* The environment may make a call fail while the run's budget lasts.
Allowed(failed) == failed => faults < MaxFaults
Charged(failed) == IF failed THEN faults + 1 ELSE faults

\* A loop that takes every attempt of the resolver as final.
location_found_after_attempt(la, lo) == TRUE

\* Lines 967-972: location_found after an attempt that left lat and lon.
location_found_after(la, lo) == ~(IsNone(la) \/ IsNone(lo))

\* --------------------------------------------------------------- actions
\* Lines 948-972: resolve the location while it is not found.
LocateStep ==
    /\ UNCHANGED probe
    /\ pc = "locate"
    /\ pc' = Follows("locate")
    /\ IF NeedsLocation(location_found)
       THEN \E outs \in [1..Len(services) -> LocationOuts], fb \in FallbackOuts, d \in FetchDurs :
              LET r == get_current_location(outs, fb)
                  valid == ~IsNone(r.lat) /\ ~IsNone(r.lon)
              IN  /\ Allowed(~valid)
                  /\ faults' = Charged(~valid)
                  /\ lat' = IF valid THEN r.lat ELSE None
                  /\ lon' = IF valid THEN r.lon ELSE None
                  /\ location_found' = location_found_after(IF valid THEN r.lat ELSE None,
                                                             IF valid THEN r.lon ELSE None)
                  /\ clock' = clock + d
                  /\ delay' = delay + d
                  /\ calls' = Append(calls, "locate")
                  /\ unclosed' = unclosed \cup Leaks("location", r.open)
       ELSE UNCHANGED <<lat, lon, location_found, clock, delay, faults, calls, unclosed>>
    /\ UNCHANGED <<state, last_temperature_query_time, last_redline_query_time,
                   last_time_sync_time, last_temperature_text, last_redline_text,
                   fail_count, cur_time, label, exc, ticks, decision, stamp, weather_succeeded,
                   transit_succeeded, shown, window>>

\* Lines 974-982: refresh the weather text when it is due.
WeatherStep ==
    /\ UNCHANGED probe
    /\ pc = "weather"
    /\ IF last_temperature_text = ""
          \/ Due(clock, last_temperature_query_time, temperature_query_interval_secs)
       THEN IF location_found /\ ~IsNone(lat) /\ ~IsNone(lon)
            THEN \E d \in FetchDurs :
                 \E co \in WeatherOuts, fo \in ForecastOuts(clock + d) :
                   LET cur == get_temperature(co)
                       fs == get_forecast_summary(fo, clock + d, 6)
                       r == get_temperature_text(cur, fs.summary, fail_count)
                       w == refreshed_weather(r.text, clock + d)
                       failed == ~IsNone(r.raises) \/ cur.temp.t = "null" \/ IsNone(fs.summary)
                   IN  /\ Allowed(failed)
                       /\ faults' = Charged(failed)
                       /\ decision' = [decision EXCEPT !.weather =
                             Some(Tested(clock, last_temperature_query_time,
                                         last_temperature_text, stamp.weather,
                                         Some(Fetched(~IsNone(r.raises) \/ cur.temp.t = "null",
                                                      IF IsNone(r.raises) THEN Some(r.text)
                                                      ELSE None))))]
                       /\ clock' = clock + d
                       /\ delay' = delay + d
                       /\ calls' = Append(calls, "weather")
                       /\ unclosed' = unclosed \cup Leaks("weather", cur.open)
                                               \cup Leaks("forecast", fs.open)
                       /\ IF IsNone(r.raises)
                          THEN /\ last_temperature_text' = w.text
                               /\ last_temperature_query_time' = w.time
                               /\ fail_count' = r.fail_count
                               /\ stamp' = [stamp EXCEPT !.weather = Some(clock + d),
                                                          !.real.weather = Some(Elapsed + d)]
                               /\ weather_succeeded' = (weather_succeeded \/ cur.temp.t # "null")
                               /\ exc' = exc
                               /\ pc' = Follows("weather")
                          ELSE /\ exc' = r.raises
                               /\ pc' = "except"
                               /\ UNCHANGED <<last_temperature_text, last_temperature_query_time,
                                              fail_count, stamp, weather_succeeded>>
            ELSE /\ last_temperature_text' = "Location not available"
                 /\ pc' = Follows("weather")
                 /\ decision' = [decision EXCEPT !.weather =
                       Some(Tested(clock, last_temperature_query_time,
                                   last_temperature_text, stamp.weather, None))]
                 /\ UNCHANGED <<last_temperature_query_time, fail_count, clock, delay, faults, calls,
                                unclosed, stamp, weather_succeeded, exc>>
       ELSE /\ pc' = Follows("weather")
            /\ decision' = [decision EXCEPT !.weather =
                  Some(Tested(clock, last_temperature_query_time,
                              last_temperature_text, stamp.weather, None))]
            /\ UNCHANGED <<last_temperature_text, last_temperature_query_time, fail_count,
                           clock, delay, faults, calls, unclosed, stamp, weather_succeeded, exc>>
    /\ UNCHANGED <<state, location_found, lat, lon, last_redline_query_time,
                   last_time_sync_time, last_redline_text, cur_time, label,
                   ticks, shown, window, transit_succeeded>>

\* Lines 983-990: read cur_time, refresh the transit text when it is due.
TransitStep ==
    /\ UNCHANGED probe
    /\ pc = "transit"
    /\ pc' = Follows("transit")
    /\ cur_time' = clock
    /\ IF last_redline_text = ""
          \/ Due(clock, last_redline_query_time, redline_query_interval_secs)
       THEN \E out \in TransitOuts, d \in FetchDurs :
              LET r == get_redline_departure_text(out, localtime(clock + d))
                  t == refreshed_transit(r.text, clock, WeatherKept)
              IN  /\ Allowed(out.kind # "payload")
                  /\ faults' = Charged(out.kind # "payload")
                  /\ decision' = [decision EXCEPT !.transit =
                        Some(Tested(clock, last_redline_query_time, last_redline_text,
                                    stamp.transit,
                                    Some(Fetched(out.kind # "payload", Some(r.text)))))]
                  /\ last_redline_text' = t.text
                  /\ last_redline_query_time' = t.time
                  /\ last_temperature_text' = t.kept.text
                  /\ last_temperature_query_time' = t.kept.time
                  /\ fail_count' = t.kept.fail_count
                  /\ clock' = clock + d
                  /\ delay' = delay + d
                  /\ calls' = Append(calls, "transit")
                  /\ stamp' = [stamp EXCEPT !.transit = Some(clock),
                                             !.real.transit = Some(Elapsed)]
                  /\ transit_succeeded' = (transit_succeeded \/ out.kind = "payload")
                  /\ unclosed' = unclosed \cup Leaks("transit", r.open)
       ELSE /\ decision' = [decision EXCEPT !.transit =
                  Some(Tested(clock, last_redline_query_time, last_redline_text,
                              stamp.transit, None))]
            /\ UNCHANGED <<last_redline_text, last_redline_query_time, clock, delay, faults,
                           calls, stamp, unclosed, transit_succeeded,
                           last_temperature_text, last_temperature_query_time, fail_count>>
    /\ UNCHANGED <<state, location_found, lat, lon, last_time_sync_time, label,
                   exc, ticks, weather_succeeded, shown, window>>

\* Lines 992-999: resynchronise the clock when it is due.
SyncStep ==
    /\ UNCHANGED probe
    /\ pc = "sync"
    /\ pc' = Follows("sync")
    /\ IF Due(cur_time, last_time_sync_time, time_sync_interval_secs)
       THEN \E d \in FetchDurs, rtc \in RtcOutcomes :
            \E served \in [1..Len(time_services) ->
                               {time_service(o) : o \in SyncOuts(clock + d)}] :
              LET r == sync_from(served, rtc, 1, 0)
              IN  /\ Allowed(~r.ok)
                  /\ faults' = Charged(~r.ok)
                  /\ last_time_sync_time' = sync_stamp(r.ok, cur_time)
                  /\ clock' = IF r.ok THEN mktime(Val(r.set_clock)) ELSE clock + d
                  /\ delay' = delay + d
                  /\ calls' = Append(calls, "sync")
                  /\ decision' = [decision EXCEPT !.sync =
                        Some([at |-> cur_time,
                              gap |-> cur_time - last_time_sync_time,
                              prev |-> stamp.sync])]
                  /\ stamp' = [stamp EXCEPT
                        !.sync = Some([time |-> cur_time, ok |-> r.ok]),
                        !.moved = IF r.ok THEN @ \cup Moved(clock + d, mktime(Val(r.set_clock)))
                                  ELSE @]
                  /\ unclosed' = unclosed \cup Leaks("time", r.open)
       ELSE /\ decision' = [decision EXCEPT !.sync =
                        Some([at |-> cur_time,
                              gap |-> cur_time - last_time_sync_time,
                              prev |-> stamp.sync])]
            /\ UNCHANGED <<last_time_sync_time, clock, delay, faults, calls, stamp, unclosed>>
    /\ UNCHANGED <<state, location_found, lat, lon, last_temperature_query_time,
                   last_redline_query_time, last_temperature_text, last_redline_text,
                   fail_count, cur_time, label, exc, ticks, weather_succeeded,
                   transit_succeeded, shown, window>>

\* Lines 1000-1057: render the current rotation index, then advance it.
RenderStep ==
    /\ UNCHANGED probe
    /\ pc = "render"
    /\ pc' = Follows("render")
    /\ label' = render(state, location_found, last_temperature_text, last_redline_text, clock)
    /\ shown' = state
    /\ state' = next_state(state)
    /\ UNCHANGED <<location_found, lat, lon, last_temperature_query_time,
                   last_redline_query_time, last_time_sync_time, last_temperature_text,
                   last_redline_text, fail_count, cur_time, clock, delay, faults, exc, ticks, calls,
                   decision, stamp, weather_succeeded,
                   transit_succeeded, window, unclosed>>

\* Lines 1059-1061: the outer error boundary.
ExceptStep ==
    /\ UNCHANGED probe
    /\ pc = "except"
    /\ pc' = IF Catches(Val(exc)) THEN "sleep" ELSE "terminated"
    /\ UNCHANGED <<loopvars, clock, delay, faults, exc, ticks, calls, decision, stamp, weather_succeeded,
                   transit_succeeded, shown, window, unclosed>>

\* Line 1063: time.sleep(interval_seconds), then the next iteration.
SleepStep ==
    /\ UNCHANGED probe
    /\ pc = "sleep"
    /\ ticks < MaxTicks
    /\ clock + interval_seconds <= MaxClock
    /\ pc' = Follows("sleep")
    /\ clock' = clock + interval_seconds
    /\ delay' = delay
    /\ faults' = faults
    /\ ticks' = ticks + 1
    /\ calls' = <<>>
    /\ decision' = NoDecision
    /\ exc' = None
    /\ window' = LET w == Append(window, shown)
                 IN  IF Len(w) > max_state THEN Tail(w) ELSE w
    /\ shown' = 0
    /\ unclosed' = {}
    /\ UNCHANGED <<loopvars, stamp, weather_succeeded, transit_succeeded>>

Next ==
    \/ LocateStep
    \/ WeatherStep
    \/ TransitStep
    \/ SyncStep
    \/ RenderStep
    \/ ExceptStep
    \/ SleepStep

Spec == Init /\ [][Next]_vars

\* ====================================================== the functions called
\* The data-source functions called directly, one call in a run, on every
\* answer their endpoints can give.  The loop's variables stay as display_monitor
\* finds them at its start.
othervars == <<pc, state, location_found, lat, lon, last_temperature_query_time,
               last_redline_query_time, last_time_sync_time, last_temperature_text,
               last_redline_text, cur_time, label, clock, exc, delay, faults,
               ticks, calls, decision, stamp, weather_succeeded,
                   transit_succeeded, shown, window, unclosed>>

\* Longest list of predictions in a transit answer.
MaxPredictions == 3
\* Longest run of calls of get_temperature_text.
MaxTextCalls == 13
\* Longest forecast list built from SampleOffsets.
MaxSamples == 3

\* Timestamps as the time services write them, and payloads that hold them
\* under one or two of the candidate names.
TimeEST == IsoStamp(<<2024, 1, 15, 14, 30, 0>>, ZoneEST)
TimeFraction == IsoStamp(<<2024, 1, 15, 14, 31, 5>>, Fraction)
TimeLocal == IsoStamp(<<2024, 1, 15, 9, 32, 10>>, <<>>)
TimeMinutesUTC == <<"2", "0", "2", "4", "-", "0", "1", "-", "1", "5", "T",
                    "1", "4", ":", "3", "0", "Z">>
TimeBlank == <<"2", "0", "2", "4", "-", "0", "1", "-", "1", "5", " ",
               "1", "4", ":", "3", "0", ":", "0", "0">>
SyncProbeOuts ==
    { Transport, BadStatus(503), BadJson,
      Payload(NoTime),
      Payload([NoTime EXCEPT !.datetime = Some(TimeEST)]),
      Payload([NoTime EXCEPT !.dateTime = Some(TimeFraction)]),
      Payload([NoTime EXCEPT !.currentDateTime = Some(TimeMinutesUTC)]),
      Payload([NoTime EXCEPT !.datetime = Some(<<>>), !.currentLocalTime = Some(TimeLocal)]),
      Payload([NoTime EXCEPT !.datetime = Some(TimeBlank), !.dateTime = Some(TimeFraction)]),
      Payload([NoTime EXCEPT !.dateTime = Some(TimeLocal), !.currentDateTime = Some(TimeEST)]),
      Payload([NoTime EXCEPT !.currentLocalTime = Some(TimeEST),
                             !.currentDateTime = Some(TimeFraction)]) }
LocationProbeOuts ==
    { Transport, BadStatus(429), BadJson,
      Payload([lat |-> None, lon |-> Some(-7111)]),
      Payload([lat |-> Some(4237), lon |-> Some(-7111)]) }
FallbackProbeOuts ==
    { Transport, BadStatus(429), BadJson,
      Payload([status |-> "fail", lat |-> None, lon |-> None]),
      Payload([status |-> "success", lat |-> None, lon |-> Some(-7111)]),
      Payload([status |-> "success", lat |-> Some(4240), lon |-> Some(-7110)]) }
WeatherProbeOuts ==
    { Transport, BadStatus(401), BadJson,
      Payload([has_main |-> FALSE, temp |-> TNull, desc |-> ""]),
      Payload([has_main |-> TRUE, temp |-> TNull, desc |-> "clear sky"]),
      Payload([has_main |-> TRUE, temp |-> TStr, desc |-> "clear sky"]),
      Payload([has_main |-> TRUE, temp |-> TNum(725), desc |-> "clear sky"]) }
\* Forecast answers: failures, an empty list, samples of both of the next
\* two days, of one of them only, of today only, and temperatures written
\* as strings.
ForecastProbeOuts(now) ==
    { Transport, BadStatus(401), BadJson,
      Payload([list |-> <<>>]),
      Payload([list |-> << Sample(now + 6 * 3600, TNum(701)),
                           Sample(now + SecsPerDay, TNum(700)),
                           Sample(now + SecsPerDay + 3 * 3600, TNum(750)),
                           Sample(now + 2 * SecsPerDay, TNum(600)) >>]),
      Payload([list |-> << Sample(now + 6 * 3600, TNum(701)),
                           Sample(now + SecsPerDay, TNum(700)) >>]),
      Payload([list |-> << Sample(now + 2 * SecsPerDay, TNum(600)) >>]),
      Payload([list |-> << Sample(now + 3 * 3600, TNum(688)) >>]),
      Payload([list |-> << Sample(now + 6 * 3600, TStr) >>]),
      Payload([list |-> << Sample(now + SecsPerDay, TNum(700)),
                           Sample(now + SecsPerDay + 3 * 3600, TStr) >>]) }

\* The shapes of one prediction: an arrival 14:45 and 14:35 on 2024-01-15;
\* an arrival 14:00 beside a departure 15:10; no attributes member; attributes without a time; a departure
\* only, 00:10 the next day; an arrival that is no timestamp beside a good
\* departure; an empty arrival beside a good departure; attributes null.
NotADate == <<"n", "o", "t", "-", "a", "-", "d", "a", "t", "e">>
Departure1510 ==
    Some(IsoStamp(<<2024, 1, 15, 15, 10, 0>>, <<".", "1", "2", "3", "+", "0", "0", ":", "0", "0">>))
PredictionShapes ==
    { Prediction(Some(IsoStamp(<<2024, 1, 15, 14, 45, 0>>, ZoneEST)), None),
      Prediction(Some(IsoStamp(<<2024, 1, 15, 14, 35, 0>>, ZoneEST)), None),
      Prediction(Some(IsoStamp(<<2024, 1, 15, 14, 0, 0>>, ZoneEST)), Departure1510),
      [attributes |-> "missing", arrival_time |-> None, departure_time |-> None],
      Prediction(None, None),
      Prediction(None, Some(IsoStamp(<<2024, 1, 16, 0, 10, 0>>, ZoneUTC))),
      Prediction(Some(NotADate), Departure1510),
      Prediction(Some(<<>>), Departure1510),
      [attributes |-> "null", arrival_time |-> None, departure_time |-> None] }
PredictionLists ==
    UNION { [1..n -> PredictionShapes] : n \in 0..MaxPredictions }
TransitProbeOuts ==
    { Transport, BadStatus(500), BadJson, Payload([is_null |-> TRUE, predictions |-> <<>>]) }
      \cup { Payload([is_null |-> FALSE, predictions |-> l]) : l \in PredictionLists }
\* time.localtime() when the predictions are read
NowSamples == { <<2024, 1, 15, 14, 30, 0>>, <<2024, 1, 15, 23, 50, 0>> }
StampSamples ==
    { <<2024, 1, 15, 14, 45, 0>>, <<2024, 1, 15, 14, 0, 0>>, <<2024, 1, 16, 0, 10, 0>>,
      <<2024, 2, 1, 0, 10, 0>>, <<2025, 1, 1, 0, 10, 0>>, <<2024, 1, 14, 23, 55, 0>>,
      <<2024, 1, 15, 23, 50, 59>> }

\* Strings handed to parse_iso_timestamp: a date, 'T', a time of three, two
\* or one component, and what may follow the time.
DateText == <<"2", "0", "2", "4", "-", "0", "1", "-", "1", "5">>
TimeTexts == { <<"1", "4", ":", "3", "0", ":", "0", "0">>,
               <<"0", "9", ":", "0", "5", ":", "0", "7">>,
               <<"1", "4", ":", "3", "0">>,
               <<"1", "4">> }
TailTexts ==
    { <<>>, <<"Z">>, <<"+", "0", "0", ":", "0", "0">>, <<"+", "0", "5", ":", "3", "0">>,
      <<"-", "0", "5", ":", "0", "0">>, <<"-", "1", "1", ":", "3", "0">>,
      <<".", "1", "2", "3", "4", "5", "6", "+", "0", "0", ":", "0", "0">>,
      <<".", "1", "2", "3", "-", "0", "5", ":", "0", "0">>, <<".", "5", "Z">>,
      \* after a '-': one digit each, three digits, three components, a
      \* letter, no colon
      <<"-", "5", ":", "0">>, <<"-", "0", "0", "5", ":", "0", "0">>, <<"-", "0", "5", ":", "0", "0", ":", "0", "0">>,
      <<"-", "0", "a", ":", "0", "0">>, <<"-", "0", "5">>, <<"-", "0", "5", "0", "0">> }
ParseSamples ==
    { DateText \o <<"T">> \o t \o z : t \in TimeTexts, z \in TailTexts } \cup
    { <<"n", "o", "t", "-", "a", "-", "d", "a", "t", "e">>,
      <<>>,
      DateText,
      DateText \o <<" ", "1", "4", ":", "3", "0", ":", "0", "0">>,
      DateText \o <<" ", "1", "4">>,
      DateText \o <<"T", "-", "0", "5", ":", "0", "0">> }

\* The texts of the arguments from which the URLs are built: coordinates as
\* str() writes a float, keys and stop ids as the settings may hold them.
CoordTexts == { <<"4", "2", ".", "3", "7">>, <<"-", "7", "1", ".", "1", "1">> }
KeyTexts == { <<"0", "a", "1", "b", "2", "c", "3", "d">>, <<"k", "/", "e", " ", "y">> }
StopTexts == { <<"p", "l", "a", "c", "e", "-", "p", "o", "r", "t", "r">>, <<"7", "0", "0", "6", "5">>, <<"n", "o", "d", "e", ":", "1", "/", "p", "o", "r", "t", "e", "r", " ", "s", "q">> }

CallSync ==
    /\ probe = NoProbe
    /\ \E outs \in [1..Len(time_services) -> SyncProbeOuts], rtc \in RtcOutcomes :
         probe' = [fn |-> "sync_time_from_internet", outs |-> outs, rtc |-> rtc,
                   res |-> sync_time_from_internet(outs, rtc)]
    /\ UNCHANGED <<othervars, fail_count>>

CallLocation ==
    /\ probe = NoProbe
    /\ \E outs \in [1..Len(services) -> LocationProbeOuts], fb \in FallbackProbeOuts :
         probe' = [fn |-> "get_current_location", outs |-> outs, fallback |-> fb,
                   res |-> get_current_location(outs, fb)]
    /\ UNCHANGED <<othervars, fail_count>>

\* Answers of a primary service of display.py; the coordinates are multiples
\* of 0.06 degree, so that the mean of up to three of them is a whole
\* number of hundredths.
DisplayLocationOuts ==
    { Transport, BadStatus(429), BadJson,
      Payload([lat |-> None, lon |-> Some(-7140)]),
      Payload([lat |-> Some(4200), lon |-> Some(-7140)]),
      Payload([lat |-> Some(4260), lon |-> Some(-7080)]) }

CallDisplayLocation ==
    /\ probe = NoProbe
    /\ \E outs \in [1..Len(display_services) -> DisplayLocationOuts],
          fb \in FallbackProbeOuts :
         probe' = [fn |-> "display.get_current_location", outs |-> outs, fallback |-> fb,
                   res |-> display_get_current_location(outs, fb)]
    /\ UNCHANGED <<othervars, fail_count>>

CallTemperature ==
    /\ probe = NoProbe
    /\ \E out \in WeatherProbeOuts :
         probe' = [fn |-> "get_temperature", out |-> out, res |-> get_temperature(out)]
    /\ UNCHANGED <<othervars, fail_count>>

\* Forecast lists as the API sends them, in the order of time: up to
\* MaxSamples samples, each an hour before now, 3 or 9 hours ahead (as far
\* from now + 6 hours one as the other), or on one of the next two days.
SampleOffsets ==
    {-3600, 3 * 3600, 9 * 3600, SecsPerDay, SecsPerDay + 3 * 3600, 2 * SecsPerDay}
SampleTemps == {TNum(600), TNum(700), TNum(750)}
ForecastLists(now) ==
    UNION { { [k \in 1..n |-> Sample(now + l[k][1], l[k][2])] :
                l \in { m \in [1..n -> SampleOffsets \X SampleTemps] :
                          \A k \in 1..(n - 1) : m[k][1] < m[k + 1][1] } } :
            n \in 1..MaxSamples }
ForecastListOuts(now) == { Payload([list |-> l]) : l \in ForecastLists(now) }

CallForecast ==
    /\ probe = NoProbe
    /\ \E out \in ForecastProbeOuts(clock) \cup ForecastListOuts(clock) :
         probe' = [fn |-> "get_forecast_summary", out |-> out,
                   res |-> get_forecast_summary(out, clock, 6)]
    /\ UNCHANGED <<othervars, fail_count>>

CallTransit ==
    /\ probe = NoProbe
    /\ \E out \in TransitProbeOuts, now_t \in NowSamples :
         probe' = [fn |-> "get_redline_departure_text", out |-> out, now_t |-> now_t,
                   res |-> get_redline_departure_text(out, now_t)]
    /\ UNCHANGED <<othervars, fail_count>>

CallMinutesUntil ==
    /\ probe = NoProbe
    /\ \E at \in {None} \cup {Some(t) : t \in StampSamples}, now_t \in NowSamples :
         probe' = [fn |-> "_minutes_until", arrival |-> at, now_t |-> now_t,
                   res |-> minutes_until(at, Some(now_t))]
    /\ UNCHANGED <<othervars, fail_count>>

\* The time portion of line 707 (710 without 'T').
time_part_of(iso_str) ==
    LET s == IF iso_str # <<>> /\ iso_str[Len(iso_str)] = "Z"
             THEN Before(iso_str, Len(iso_str) - 1) \o <<"+", "0", "0", ":", "0", "0">>
             ELSE iso_str
    IN  IF Contains(s, "T") THEN Split1(s, "T")[2]
        ELSE IF Contains(s, " ") THEN Split(s, " ")[2]
        ELSE s

\* probe.clean is time_part_clean as line 737 leaves it, probe.raises the
\* exception that leaves the function: the ValueError of its body meets the
\* handler of line 755.
CallParse ==
    /\ probe = NoProbe
    /\ \E iso_str \in ParseSamples :
         probe' = [fn |-> "parse_iso_timestamp", iso_str |-> iso_str,
                   time_part |-> time_part_of(iso_str),
                   clean |-> time_part_clean(time_part_of(iso_str)),
                   res |-> parse_iso_timestamp(iso_str),
                   raises |-> IF IsNone(parse_iso_timestamp(iso_str))
                              THEN Escapes("ValueError") ELSE None]
    /\ UNCHANGED <<othervars, fail_count>>

\* The URL a data-source function hands to requests_session.get.
CallUrl ==
    /\ probe = NoProbe
    /\ \/ \E lat_text \in CoordTexts, lon_text \in CoordTexts, key \in KeyTexts :
            probe' = [fn |-> "url", of |-> "weather", key |-> key,
                      url |-> weather_url(lat_text, lon_text, key)]
       \/ \E lat_text \in CoordTexts, lon_text \in CoordTexts, key \in KeyTexts :
            probe' = [fn |-> "url", of |-> "forecast", key |-> key,
                      url |-> forecast_url(lat_text, lon_text, key)]
       \/ \E stop \in StopTexts :
            probe' = [fn |-> "url", of |-> "transit", stop |-> stop,
                      url |-> url_with_params(stop)]
       \/ \E i \in 1..Len(service_url) :
            probe' = [fn |-> "url", of |-> "time", url |-> service_url[i]]
    /\ UNCHANGED <<othervars, fail_count>>

FnNext ==
    \/ CallSync
    \/ CallLocation
    \/ CallDisplayLocation
    \/ CallTemperature
    \/ CallForecast
    \/ CallTransit
    \/ CallMinutesUntil
    \/ CallParse
    \/ CallUrl

FnSpec == Init /\ [][FnNext]_vars

\* get_temperature_text called again and again, as the loop does while the
\* weather is due: fail_count is the module-level counter the calls share.
\* probe.streak counts the calls since the last one whose current-conditions
\* fetch returned a temperature, probe.n the calls made.
CallTemperatureText ==
    /\ IF probe.fn = "none" THEN TRUE ELSE probe.n < MaxTextCalls
    /\ \E co \in WeatherProbeOuts, fo \in ForecastProbeOuts(clock) :
         LET cur == get_temperature(co)
             fs == get_forecast_summary(fo, clock, 6)
             r == get_temperature_text(cur, fs.summary, fail_count)
             before == IF probe.fn = "none" THEN [streak |-> 0, n |-> 0] ELSE probe
         IN  /\ probe' = [fn |-> "get_temperature_text", cur |-> cur, fs |-> fs.summary,
                          res |-> r,
                          streak |-> IF cur.temp.t = "null" THEN before.streak + 1 ELSE 0,
                          n |-> before.n + 1]
             /\ fail_count' = r.fail_count
    /\ UNCHANGED othervars

TextNext == CallTemperatureText

TextSpec == Init /\ [][TextNext]_vars

\* =============================================================== claims
Invoked(c) == \E i \in 1..Len(calls) : calls[i] = c
\* The source clients invoked in the current tick, in order.
SourceCalls == SelectSeq(calls, LAMBDA c : c # "locate")
Rank(c) == CASE c = "weather" -> 1 [] c = "transit" -> 2 [] c = "sync" -> 3

\* C1: the rotation index advances by exactly one, cyclically, at every tick,
\* whatever happened in the tick (also an exception): after n ticks from
\* state 1 the index is (n mod 3) + 1 and tick n + 1 rendered that state.
Claim_C1 ==
    /\ pc = "locate" => state = (ticks % max_state) + 1
    /\ pc = "sleep" => shown = (ticks % max_state) + 1

\* C2: while the weather source has failed or raised at every fetch so far,
\* every state is rendered at least once in any three consecutive ticks.
Claim_C2 ==
    (~weather_succeeded /\ Len(window) = max_state)
        => \A s \in 1..max_state : \E i \in 1..Len(window) : window[i] = s

\* C3: no step terminates the loop; an exception raised in a tick goes to the
\* outer boundary, which leaves the loop's variables alone and passes to the
\* sleep; the sleep lasts interval_seconds, once, and the next tick starts.
Thm_C3 ==
    [][ /\ pc' # "terminated"
        /\ ~IsNone(exc') /\ IsNone(exc) => pc' = "except"
        /\ pc = "except" => (pc' = "sleep" /\ clock' = clock /\ state' = state)
        /\ pc = "sleep" => (pc' = "locate" /\ clock' = clock + interval_seconds
                            /\ ticks' = ticks + 1) ]_vars

\* a tick that raised was followed by the sleep and the start of the next tick
Wit_C3 == pc = "locate" /\ ticks > 0 /\ window[Len(window)] = 0

\* C4: a source holding a cached text (transit; weather with the location
\* resolved) is refreshed in a tick iff now - last_fetch_time > its interval,
\* now being the clock reading at the source's refresh test in that tick.
Thm_C4 ==
    /\ (~IsNone(decision.transit) /\ Val(decision.transit).cached)
         => (Invoked("transit")
               <=> Val(decision.transit).gap > redline_query_interval_secs)
    /\ (~IsNone(decision.weather) /\ Val(decision.weather).cached /\ location_found)
         => (Invoked("weather")
               <=> Val(decision.weather).gap > temperature_query_interval_secs)

\* transit last fetched 61 s ago is refreshed
Wit_C4 ==
    /\ ~IsNone(decision.transit)
    /\ Val(decision.transit).cached
    /\ Val(decision.transit).gap = redline_query_interval_secs + 1
    /\ Invoked("transit")

\* transit last fetched exactly 60 s ago, and 30 s ago, is not refreshed
Wit_C4_at_interval ==
    /\ ~IsNone(decision.transit)
    /\ Val(decision.transit).cached
    /\ Val(decision.transit).gap = redline_query_interval_secs
    /\ ~Invoked("transit")
Wit_C4_half_interval ==
    /\ ~IsNone(decision.transit)
    /\ Val(decision.transit).cached
    /\ Val(decision.transit).gap = 30
    /\ ~Invoked("transit")
\* weather with the location resolved and a cached text is refreshed
Wit_C4_weather ==
    /\ ~IsNone(decision.weather)
    /\ Val(decision.weather).cached
    /\ location_found
    /\ Invoked("weather")

\* C5: after the weather or the transit client was invoked in a tick, whatever
\* came of the fetch (a value, a failure text, an exception), the source's
\* last fetch time is the clock reading of that tick.
Claim_C5 ==
    /\ (pc \in {"transit", "except"} /\ Invoked("weather"))
         => last_temperature_query_time = clock
    /\ (pc = "sync" /\ Invoked("transit")) => last_redline_query_time = cur_time

Wit_C6_after_success ==
    /\ Invoked("sync")
    /\ ~IsNone(Val(decision.sync).prev)
    /\ Val(Val(decision.sync).prev).ok

\* C7: in every tick the source clients are invoked in the order weather,
\* transit, time resync, each at most once.
Thm_C7 ==
    \A i, j \in 1..Len(SourceCalls) :
        i < j => Rank(SourceCalls[i]) < Rank(SourceCalls[j])

\* ticks that invoke all three clients, two, one and none
Wit_C7 == pc = "render" /\ SourceCalls = <<"weather", "transit", "sync">>
Wit_C7_two == pc = "render" /\ Len(SourceCalls) = 2
Wit_C7_one == pc = "render" /\ Len(SourceCalls) = 1
Wit_C7_none == pc = "render" /\ Len(SourceCalls) = 0

\* C8: while the location is unset no weather or forecast request is made,
\* the Temperature state renders "no Temp avail" in red, and the Transit and
\* Countdown states render their own content.
Thm_C8 ==
    /\ Invoked("weather") => (location_found /\ ~IsNone(lat) /\ ~IsNone(lon))
    /\ (pc = "sleep" /\ ~location_found /\ shown = 1)
         => label = [text |-> "no Temp avail", color |-> RED_COLOR]
    /\ (pc = "sleep" /\ ~location_found /\ shown = 2)
         => /\ label = [text |-> last_redline_text \o "\n" \o get_pretty_time_text,
                        color |-> RED_COLOR]
            /\ ~IsNone(stamp.transit)
    /\ (pc = "sleep" /\ ~location_found /\ shown = 3)
         => label = countdown(clock)

\* one run renders the three states in turn with the location unset
Wit_C8 ==
    /\ pc = "sleep" /\ ~location_found /\ shown = 3 /\ window = <<1, 2>>
    /\ label = countdown(clock)

\* C9: once the location is found, latitude and longitude never change and
\* get_current_location is not invoked again.
Thm_C9 ==
    [][ location_found
          => /\ location_found'
             /\ lat' = lat
             /\ lon' = lon
             /\ pc = "locate" => calls' = calls ]_vars

\* a tick that starts with the location found has passed the resolver
Wit_C9 == location_found /\ ticks > 1 /\ pc = "weather" /\ calls = <<>>

\* C10: every data-source function has closed every response it obtained
\* when it returns.
Claim_C10 == unclosed = {}

\* ------------------------------------------------------------------- C11
\* The answers that give a function a value to return: a decoded payload
\* that holds a datetime the parser reads; both coordinates (and, from
\* ip-api.com, status "success"); a number at main.temp; a forecast list
\* that is not empty, of timed samples whose temperatures are numbers.
\* Every other answer is a transport error, a status other than 200, a body
\* that is not JSON or a malformed payload.
UsableTime(out) ==
    /\ out.kind = "payload"
    /\ ~IsNone(datetime_str(out.data))
    /\ ~IsNone(time_struct(Val(datetime_str(out.data))))
UsablePlace(out) ==
    out.kind = "payload" /\ ~IsNone(out.data.lat) /\ ~IsNone(out.data.lon)
UsableFallback(out) == UsablePlace(out) /\ out.data.status = "success"
UsableWeather(out) ==
    out.kind = "payload" /\ out.data.has_main /\ out.data.temp.t = "number"
UsableForecast(out) ==
    /\ out.kind = "payload"
    /\ out.data.list # <<>>
    /\ \A k \in 1..Len(out.data.list) :
         ~IsNone(out.data.list[k].dt) /\ out.data.list[k].temp.t = "number"

\* C11: when every endpoint of a data-source function answers with a
\* transport error, a status other than 200 or a malformed payload, the
\* function raises nothing and returns its unavailable value: False from
\* sync_time_from_internet, (None, None) from get_current_location and
\* get_temperature, None from get_forecast_summary, a message from
\* get_redline_departure_text.
Claim_C11 ==
    /\ (probe.fn = "sync_time_from_internet"
          /\ \A i \in 1..Len(probe.outs) : ~UsableTime(probe.outs[i]))
         => IsNone(probe.res.raises) /\ ~probe.res.ok
    /\ (probe.fn = "get_current_location"
          /\ ~UsableFallback(probe.fallback)
          /\ \A i \in 1..Len(probe.outs) : ~UsablePlace(probe.outs[i]))
         => IsNone(probe.res.raises) /\ IsNone(probe.res.lat) /\ IsNone(probe.res.lon)
    /\ (probe.fn = "get_temperature" /\ ~UsableWeather(probe.out))
         => /\ IsNone(probe.res.raises)
            /\ probe.res.temp = TNull
            /\ IsNone(probe.res.desc)
    /\ (probe.fn = "get_forecast_summary" /\ ~UsableForecast(probe.out))
         => IsNone(probe.res.raises) /\ IsNone(probe.res.summary)
    /\ probe.fn = "get_redline_departure_text"
         => IsNone(probe.res.raises) /\ probe.res.text # ""

\* ------------------------------------------------------------------- C12
\* The services of the list whose answer carries a timestamp the function
\* can read.
Parseable(outs) == {i \in 1..Len(outs) : UsableTime(outs[i])}
Least(S) == CHOOSE i \in S : \A j \in S : i <= j

\* C12: sync_time_from_internet requests the time services in list order,
\* goes on to the next one after a transport error, a status other than 200
\* or a payload without a usable datetime, and requests none after the
\* first whose timestamp it could read: the services requested are the
\* list up to that one, or the whole list when there is none.
Thm_C12 ==
    probe.fn = "sync_time_from_internet"
      => probe.res.contacted =
           SubSeq(time_services, 1,
                  IF Parseable(probe.outs) = {} THEN Len(time_services)
                  ELSE Least(Parseable(probe.outs)))

\* the first service answers with a timestamp and the second is not requested
Wit_C12 ==
    /\ probe.fn = "sync_time_from_internet"
    /\ Parseable(probe.outs) = {1, 2}
    /\ probe.res.contacted = <<time_services[1]>>
\* the first service fails in each way and the second is requested
Wit_C12_transport ==
    /\ probe.fn = "sync_time_from_internet"
    /\ probe.outs[1].kind = "transport"
    /\ probe.res.contacted = time_services
    /\ probe.res.ok
Wit_C12_status ==
    /\ probe.fn = "sync_time_from_internet"
    /\ probe.outs[1].kind = "status"
    /\ probe.res.contacted = time_services
    /\ probe.res.ok
Wit_C12_no_datetime ==
    /\ probe.fn = "sync_time_from_internet"
    /\ probe.outs[1].kind = "payload"
    /\ ~UsableTime(probe.outs[1])
    /\ probe.res.contacted = time_services
    /\ probe.res.ok

\* ------------------------------------------------------------------- C13
\* C13: the weather text is "Failed to get temperature." for the first 10
\* consecutive failures of the current-conditions fetch and "Failed to fetch
\* temperature data." from the 11th on, and a call whose current-conditions
\* fetch succeeded leaves the failure counter at 0.
Claim_C13 ==
    probe.fn = "get_temperature_text"
      => /\ (probe.cur.temp.t = "null" /\ probe.streak <= fail_threshold)
              => probe.res.text = "Failed to get temperature."
         /\ (probe.cur.temp.t = "null" /\ probe.streak > fail_threshold)
              => probe.res.text = "Failed to fetch temperature data."
         /\ probe.cur.temp.t = "number" => fail_count = 0

\* ------------------------------------------------------------------- C14
\* The two texts get_temperature_text returns when it has no current
\* temperature; neither holds a datum of the forecast.
FailureTexts == {"Failed to get temperature.", "Failed to fetch temperature data."}

\* C14: when exactly one of the current-conditions fetch and the forecast
\* fetch succeeded, the text holds the data of that half and a marker for
\* the other: the current temperature above "No Forecast" when the forecast
\* failed, and a text with the forecast's data (so none of the two failure
\* messages, which hold none) when the current-conditions fetch failed.
Claim_C14 ==
    probe.fn = "get_temperature_text"
      => /\ (probe.cur.temp.t = "number" /\ IsNone(probe.fs))
              => probe.res.text =
                   ToString(RoundTenths(probe.cur.temp.v)) \o "oF >" \o "\n" \o "No Forecast"
         /\ (probe.cur.temp.t = "null" /\ ~IsNone(probe.fs)
               /\ Val(probe.fs).forecast_temp.t = "number")
              => probe.res.text \notin FailureTexts

\* ------------------------------------------------------------------- C15
\* C15: in a weather text with a current temperature the day-high line is
\* "No Forecast" only when the highs of both of the next two days are None;
\* a day that has a high is rendered in the line.
Claim_C15 ==
    (probe.fn = "get_temperature_text" /\ IsNone(probe.res.raises)
       /\ probe.cur.temp.t = "number" /\ ~IsNone(probe.fs))
      => (probe.res.forecast_line = "No Forecast"
            <=> /\ Val(probe.fs).day1_high = TNull
                /\ Val(probe.fs).day2_high = TNull)

\* ------------------------------------------------------------------- C16
\* C16: a state that renders a source whose fetch failed shows a failure
\* message, not a blank, in RED_COLOR: the Temperature state when the
\* location is resolved and the weather text is one of the failure texts,
\* the Transit state always.
Claim_C16 ==
    /\ (pc = "sleep" /\ shown = 1 /\ location_found /\ last_temperature_text \in FailureTexts)
         => label = [text |-> last_temperature_text, color |-> RED_COLOR]
    /\ (pc = "sleep" /\ shown = 2)
         => label.color = RED_COLOR /\ label.text # ""

\* ------------------------------------------------------------------- C17
\* The minutes until the arrival of one prediction (None when it has no
\* timestamp the parser reads) and the places of the list whose prediction
\* qualifies.
Minutes(prediction, now_t) ==
    LET str == arrival_time_str(prediction)
    IN  minutes_until(IF IsNone(str) THEN None ELSE parse_iso_timestamp(Val(str)), Some(now_t))
Qualifying(predictions, now_t) ==
    {k \in 1..Len(predictions) :
        /\ ~IsNone(Minutes(predictions[k], now_t))
        /\ Val(Minutes(predictions[k], now_t)) >= min_lead_minutes}
\* The i-th smallest member of a set of numbers.
Nth(S, i) == CHOOSE k \in S : Cardinality({j \in S : j < k}) = i - 1

Wit_C17_skipped ==
    /\ probe.fn = "get_redline_departure_text" /\ probe.out.kind = "payload"
    /\ ~probe.out.data.is_null
    /\ Qualifying(probe.out.data.predictions, probe.now_t) = {1, 3}
    /\ Minutes(probe.out.data.predictions[2], probe.now_t) = Some(5)
    /\ probe.res.train_times = <<15, 40>>
\* one prediction qualifies and all are examined
Wit_C17_one ==
    /\ probe.fn = "get_redline_departure_text" /\ probe.out.kind = "payload"
    /\ ~probe.out.data.is_null
    /\ Qualifying(probe.out.data.predictions, probe.now_t) = {2}
    /\ probe.res.examined = 3
    /\ Len(probe.res.train_times) = 1

\* ------------------------------------------------------------------- C18
\* A calendar date as one number that grows with the date.
DateNumber(t) == (t[1] * 100 + t[2]) * 100 + t[3]

\* C18: the minutes until an arrival are (arrival hour * 60 + arrival
\* minute) - (current hour * 60 + current minute), plus 1440 exactly when
\* the arrival's date is later than the current date; a negative difference
\* is returned as it is.
Thm_C18 ==
    (probe.fn = "_minutes_until" /\ ~IsNone(probe.arrival))
      => LET at == Val(probe.arrival)
             ct == probe.now_t
             rollover == IF DateNumber(at) > DateNumber(ct) THEN 1440 ELSE 0
         IN  probe.res = Some((at[4] * 60 + at[5]) - (ct[4] * 60 + ct[5]) + rollover)

\* 14:00 against 14:30 of the same day gives -30
Wit_C18 ==
    /\ probe.fn = "_minutes_until"
    /\ probe.arrival = Some(<<2024, 1, 15, 14, 0, 0>>)
    /\ probe.now_t = <<2024, 1, 15, 14, 30, 0>>
    /\ probe.res = Some(-30)
\* 14:45 against 14:30 of the same day gives 15
Wit_C18_same_day ==
    /\ probe.fn = "_minutes_until"
    /\ probe.arrival = Some(<<2024, 1, 15, 14, 45, 0>>)
    /\ probe.now_t = <<2024, 1, 15, 14, 30, 0>>
    /\ probe.res = Some(15)
\* 00:10 of the next day against 23:50 gives 20
Wit_C18_next_day ==
    /\ probe.fn = "_minutes_until"
    /\ probe.arrival = Some(<<2024, 1, 16, 0, 10, 0>>)
    /\ probe.now_t = <<2024, 1, 15, 23, 50, 0>>
    /\ probe.res = Some(20)
\* a later date in a month whose day number is smaller: 00:10 of 1 February
Wit_C18_next_month ==
    /\ probe.fn = "_minutes_until"
    /\ probe.arrival = Some(<<2024, 2, 1, 0, 10, 0>>)
    /\ probe.now_t = <<2024, 1, 15, 23, 50, 0>>
    /\ probe.res = Some(20)
\* an earlier date gets no rollover: 23:55 of the day before against 14:30
Wit_C18_day_before ==
    /\ probe.fn = "_minutes_until"
    /\ probe.arrival = Some(<<2024, 1, 14, 23, 55, 0>>)
    /\ probe.now_t = <<2024, 1, 15, 14, 30, 0>>
    /\ probe.res = Some(565)

\* ------------------------------------------------------------------- C19
\* A timestamp that is there: not None and not the empty str.
Present(o) == ~IsNone(o) /\ Val(o) # <<>>
\* The timestamp C19 names for a prediction, and whether it can be used.
Chosen(p) ==
    IF p.attributes = "object" /\ Present(p.arrival_time) THEN p.arrival_time
    ELSE IF p.attributes = "object" /\ Present(p.departure_time) THEN p.departure_time
    ELSE None
Readable(p) == ~IsNone(Chosen(p)) /\ ~IsNone(parse_iso_timestamp(Val(Chosen(p))))
\* The predictions that have a readable timestamp, each reduced to that
\* timestamp alone.
Reduced(predictions) ==
    LET kept == SelectSeq(predictions, Readable)
    IN  [k \in 1..Len(kept) |-> Prediction(Chosen(kept[k]), None)]

Wit_C19_arrival_first ==
    /\ probe.fn = "get_redline_departure_text" /\ probe.out.kind = "payload"
    /\ ~probe.out.data.is_null
    /\ Len(probe.out.data.predictions) = 1
    /\ Minutes(probe.out.data.predictions[1], probe.now_t) = Some(-30)
    /\ probe.out.data.predictions[1].departure_time = Departure1510
    /\ probe.res.train_times = <<>>
\* a prediction without timestamps and one whose timestamp does not parse
\* are followed by one that is counted
Wit_C19_skipped ==
    /\ probe.fn = "get_redline_departure_text" /\ probe.out.kind = "payload"
    /\ ~probe.out.data.is_null
    /\ Len(probe.out.data.predictions) = 3
    /\ probe.out.data.predictions[1] = Prediction(None, None)
    /\ probe.out.data.predictions[2].arrival_time = Some(NotADate)
    /\ probe.res.train_times = <<15>>
    /\ probe.res.examined = 3

\* ------------------------------------------------------------------- C20
\* The text returned when the request to the MBTA API raises.
TransportFailureText == "No MBTA data"

Wit_C20_one ==
    /\ probe.fn = "get_redline_departure_text"
    /\ probe.res.train_times = <<580>>
    /\ probe.res.text = "580 mins"
\* predictions were returned and none qualifies
Wit_C20_none ==
    /\ probe.fn = "get_redline_departure_text" /\ probe.out.kind = "payload"
    /\ ~probe.out.data.is_null
    /\ Len(probe.out.data.predictions) = 2
    /\ probe.res.examined = 2
    /\ probe.res.text = "No arrival times available."
\* the request raises
Wit_C20_transport ==
    /\ probe.fn = "get_redline_departure_text" /\ probe.out.kind = "transport"
    /\ probe.res.text = TransportFailureText

\* ------------------------------------------------------------------- C21
\* A forecast answer whose samples all carry a time and a number, in the
\* order of time.
Chronological(out) ==
    /\ UsableForecast(out)
    /\ \A k \in 1..(Len(out.data.list) - 1) :
         Val(out.data.list[k].dt) < Val(out.data.list[k + 1].dt)
\* The samples at or after now, and the one of them nearest to
\* now + 6 hours (the earlier of two that are as near).
Upcoming(list, now) == {k \in 1..Len(list) : Val(list[k].dt) >= now}
Nearest(list, now) ==
    LET away(k) == Abs(Val(list[k].dt) - (now + 6 * 3600))
    IN  CHOOSE k \in Upcoming(list, now) :
          \A j \in Upcoming(list, now) :
            away(k) < away(j) \/ (away(k) = away(j) /\ Val(list[k].dt) <= Val(list[j].dt))

\* C21: the forecast temperature get_forecast_summary returns is that of
\* the sample nearest to now + 6 hours among the samples at or after now,
\* the earliest of them on a tie, and None when no sample is at or after
\* now.
Thm_C21 ==
    (probe.fn = "get_forecast_summary" /\ Chronological(probe.out))
      => /\ IsNone(probe.res.raises)
         /\ ~IsNone(probe.res.summary)
         /\ Val(probe.res.summary).forecast_temp =
              IF Upcoming(probe.out.data.list, clock) = {} THEN TNull
              ELSE probe.out.data.list[Nearest(probe.out.data.list, clock)].temp

\* samples 3 and 9 hours ahead: the earlier one gives the temperature
Wit_C21 ==
    /\ probe.fn = "get_forecast_summary" /\ Chronological(probe.out)
    /\ Len(probe.out.data.list) = 3
    /\ Val(probe.out.data.list[1].dt) = clock - 3600
    /\ Val(probe.out.data.list[2].dt) = clock + 3 * 3600
    /\ Val(probe.out.data.list[3].dt) = clock + 9 * 3600
    /\ probe.out.data.list[2].temp # probe.out.data.list[3].temp
    /\ Val(probe.res.summary).forecast_temp = probe.out.data.list[2].temp
\* the only sample is before now
Wit_C21_past ==
    /\ probe.fn = "get_forecast_summary" /\ Chronological(probe.out)
    /\ Upcoming(probe.out.data.list, clock) = {}
    /\ Val(probe.res.summary).forecast_temp = TNull
\* the nearest sample is not the first one at or after now
Wit_C21_later ==
    /\ probe.fn = "get_forecast_summary" /\ Chronological(probe.out)
    /\ Len(probe.out.data.list) = 3
    /\ Val(probe.out.data.list[1].dt) = clock + 9 * 3600
    /\ Nearest(probe.out.data.list, clock) = 1
    /\ Val(probe.res.summary).forecast_temp = TNum(750)
    /\ probe.out.data.list[2].temp = TNum(600)

\* ------------------------------------------------------------------- C22
\* The samples of a list that fall on calendar day d, and the greatest of
\* their temperatures (None, written TNull, when there is none).
OnDay(list, d) == {k \in 1..Len(list) : DayOf(Val(list[k].dt)) = d}
HighOf(list, d) ==
    IF OnDay(list, d) = {} THEN TNull
    ELSE TNum(CHOOSE v \in {list[k].temp.v : k \in OnDay(list, d)} :
                \A k \in OnDay(list, d) : list[k].temp.v <= v)

\* C22: for tomorrow and for the day after, by the local date of the device,
\* get_forecast_summary returns the greatest temperature among the samples
\* of that day, and None for a day without samples.
Thm_C22 ==
    (probe.fn = "get_forecast_summary" /\ UsableForecast(probe.out))
      => /\ ~IsNone(probe.res.summary)
         /\ Val(probe.res.summary).day1_high
              = HighOf(probe.out.data.list, DayOf(clock + SecsPerDay))
         /\ Val(probe.res.summary).day2_high
              = HighOf(probe.out.data.list, DayOf(clock + 2 * SecsPerDay))

\* samples (day1, 70), (day1, 75), (day2, 60): highs 75 and 60
Wit_C22 ==
    /\ probe.fn = "get_forecast_summary"
    /\ probe.out = Payload([list |-> << Sample(clock + SecsPerDay, TNum(700)),
                                        Sample(clock + SecsPerDay + 3 * 3600, TNum(750)),
                                        Sample(clock + 2 * SecsPerDay, TNum(600)) >>])
    /\ Val(probe.res.summary).day1_high = TNum(750)
    /\ Val(probe.res.summary).day2_high = TNum(600)
\* the day's greatest temperature comes first
Wit_C22_first ==
    /\ probe.fn = "get_forecast_summary" /\ UsableForecast(probe.out)
    /\ Len(probe.out.data.list) = 2
    /\ OnDay(probe.out.data.list, DayOf(clock + SecsPerDay)) = {1, 2}
    /\ probe.out.data.list[1].temp = TNum(750)
    /\ probe.out.data.list[2].temp = TNum(600)
    /\ Val(probe.res.summary).day1_high = TNum(750)
    /\ Val(probe.res.summary).day2_high = TNull
\* samples of today only: no high for either day
Wit_C22_none ==
    /\ probe.fn = "get_forecast_summary" /\ UsableForecast(probe.out)
    /\ Val(probe.res.summary).day1_high = TNull
    /\ Val(probe.res.summary).day2_high = TNull

\* ------------------------------------------------------------------- C23
\* The primary providers whose answer gave both coordinates.
Located(outs) == {i \in 1..Len(outs) : UsablePlace(outs[i])}
RECURSIVE SumOver(_, _, _)
SumOver(outs, S, c) ==
    IF S = {} THEN 0
    ELSE LET i == CHOOSE j \in S : TRUE
         IN  Val(outs[i].data[c]) + SumOver(outs, S \ {i}, c)

\* C23: get_current_location (of code.py and of display.py) returns the
\* arithmetic mean of the latitudes and of the longitudes of the primary
\* providers whose extraction succeeded; it asks the last-resort provider
\* only when none succeeded, and returns (None, None) when that one gives no
\* location either.
Claim_C23 ==
    probe.fn \in {"get_current_location", "display.get_current_location"}
      => LET n == Cardinality(Located(probe.outs))
         IN  /\ n > 0
                  => /\ ~probe.res.contacted_fallback
                     /\ ~IsNone(probe.res.lat) /\ ~IsNone(probe.res.lon)
                     /\ n * Val(probe.res.lat) = SumOver(probe.outs, Located(probe.outs), "lat")
                     /\ n * Val(probe.res.lon) = SumOver(probe.outs, Located(probe.outs), "lon")
             /\ n = 0 => probe.res.contacted_fallback
             /\ (n = 0 /\ ~UsableFallback(probe.fallback))
                  => IsNone(probe.res.lat) /\ IsNone(probe.res.lon)

\* ---------------------------------------------------------------- C24
\* The member of a time-service payload that holds the first non-empty
\* string, in the order of TimeFields; None when no member holds one.
FirstNonEmpty(data) ==
    LET held == {k \in 1..Len(TimeFields) :
                    ~IsNone(data[TimeFields[k]]) /\ Val(data[TimeFields[k]]) # <<>>}
    IN  IF held = {} THEN None ELSE data[TimeFields[Least(held)]]

\* The fields a service's payload gives: those read from its first non-empty
\* candidate member; None when it has no such member or the string is not
\* read.
Given(out) ==
    IF out.kind # "payload" \/ IsNone(FirstNonEmpty(out.data)) THEN None
    ELSE time_struct(Val(FirstNonEmpty(out.data)))

\* The services after which the next one was requested.
PassedOver == 1..(Len(probe.res.contacted) - 1)

\* C24 as claimed: the datetime string is the first non-empty one of
\* datetime, dateTime, currentLocalTime, currentDateTime, and a service that
\* answered with a payload is left for the next one only when none of the
\* four is present.
Claim_C24 ==
    probe.fn = "sync_time_from_internet"
      => /\ \A i \in PassedOver :
              probe.outs[i].kind = "payload" => IsNone(FirstNonEmpty(probe.outs[i].data))
         /\ probe.res.ok
              => probe.res.set_clock = Given(probe.outs[Len(probe.res.contacted)])

\* C24: the datetime string of a time-service payload is the first non-empty
\* one of its members datetime, dateTime, currentLocalTime, currentDateTime,
\* in this order; the service is left for the next one when none of the four
\* is present, or when the string taken has no 'T' or does not read as three
\* date and three time numbers, and in no other case.
Thm_C24 ==
    probe.fn = "sync_time_from_internet"
      => /\ \A i \in 1..Len(probe.res.contacted) :
              probe.outs[i].kind = "payload"
                => (i \in PassedOver <=> IsNone(Given(probe.outs[i])))
                   \/ (i = Len(time_services) /\ IsNone(Given(probe.outs[i])))
         /\ probe.res.ok
              => probe.res.set_clock = Given(probe.outs[Len(probe.res.contacted)])

\* The first service holds "" under datetime and a timestamp under
\* currentLocalTime, and the clock is set from the latter.
Wit_C24 ==
    /\ probe.fn = "sync_time_from_internet"
    /\ probe.outs[1].kind = "payload"
    /\ probe.outs[1].data.datetime = Some(<<>>)
    /\ probe.res.ok
    /\ probe.res.set_clock = Some(<<2024, 1, 15, 9, 32, 10>>)

\* Two members are present and the earlier one in the order is taken.
Wit_C24_order ==
    /\ probe.fn = "sync_time_from_internet"
    /\ probe.outs[1].kind = "payload"
    /\ probe.outs[1].data.currentLocalTime = Some(TimeEST)
    /\ probe.outs[1].data.currentDateTime = Some(TimeFraction)
    /\ probe.res.set_clock = Some(<<2024, 1, 15, 14, 30, 0>>)

\* None of the four members is present and the next service is requested.
Wit_C24_absent ==
    /\ probe.fn = "sync_time_from_internet"
    /\ probe.outs[1] = Payload(NoTime)
    /\ Len(probe.res.contacted) = 2

\* A string is present that is not read ("2024-01-15T14:30Z", and a string
\* without 'T' ahead of a readable one) and the next service is requested.
Wit_C24_unread ==
    /\ probe.fn = "sync_time_from_internet"
    /\ probe.outs[1].kind = "payload"
    /\ probe.outs[1].data.currentDateTime = Some(TimeMinutesUTC)
    /\ Len(probe.res.contacted) = 2

Wit_C24_no_T ==
    /\ probe.fn = "sync_time_from_internet"
    /\ probe.outs[1].kind = "payload"
    /\ probe.outs[1].data.datetime = Some(TimeBlank)
    /\ probe.outs[1].data.dateTime = Some(TimeFraction)
    /\ Len(probe.res.contacted) = 2
    /\ probe.res.ok

\* ---------------------------------------------------------------- C25
\* What follows the seconds in the timestamps of the time services.
TimeSuffixes == {<<>>, ZoneEST, Fraction}

\* The timestamp is the fields written as YYYY-MM-DDTHH:MM:SS and a suffix.
WrittenAs(str, fields) == \E z \in TimeSuffixes : str = Some(IsoStamp(fields, z))

\* C25: sync_time_from_internet returns True only when it has written to the
\* RTC exactly the year, month, day, hour, minute and second that the
\* timestamp of the last service requested spells out; when rtc cannot be
\* imported or assigning r.datetime raises, it returns False and has written
\* nothing, and it has written nothing whenever it returns False.
Thm_C25 ==
    probe.fn = "sync_time_from_internet"
      => /\ probe.res.ok
              => /\ probe.rtc = "ok"
                 /\ ~IsNone(probe.res.set_clock)
                 /\ probe.outs[Len(probe.res.contacted)].kind = "payload"
                 /\ WrittenAs(FirstNonEmpty(probe.outs[Len(probe.res.contacted)].data),
                              Val(probe.res.set_clock))
         /\ probe.rtc # "ok" => ~probe.res.ok
         /\ ~probe.res.ok => IsNone(probe.res.set_clock)

\* The clock is set to 14:31:05 of 2024-01-15 from "2024-01-15T14:31:05.1234567".
Wit_C25 ==
    /\ probe.fn = "sync_time_from_internet"
    /\ probe.outs[1] = Payload([NoTime EXCEPT !.dateTime = Some(TimeFraction)])
    /\ probe.res.ok
    /\ probe.res.set_clock = Some(<<2024, 1, 15, 14, 31, 5>>)

\* The zone offset of "2024-01-15T14:30:00-05:00" is not applied.
Wit_C25_zone ==
    /\ probe.fn = "sync_time_from_internet"
    /\ probe.outs[1] = Payload([NoTime EXCEPT !.datetime = Some(TimeEST)])
    /\ probe.res.ok
    /\ probe.res.set_clock = Some(<<2024, 1, 15, 14, 30, 0>>)

\* A readable timestamp on a board without the rtc module.
Wit_C25_no_rtc ==
    /\ probe.fn = "sync_time_from_internet"
    /\ probe.rtc = "ImportError"
    /\ ~IsNone(Given(probe.outs[1]))
    /\ ~probe.res.ok
    /\ IsNone(probe.res.set_clock)
    /\ Len(probe.res.contacted) = 1

\* A readable timestamp and an RTC whose assignment raises.
Wit_C25_error ==
    /\ probe.fn = "sync_time_from_internet"
    /\ probe.rtc = "error"
    /\ ~IsNone(Given(probe.outs[1]))
    /\ ~probe.res.ok
    /\ IsNone(probe.res.set_clock)

\* ---------------------------------------------------------------- C26
\* Timezone designators (Z, +HH:MM, -HH:MM) and fractions of a second.
OffsetTails == { ZoneUTC, ZoneEST, <<"+", "0", "0", ":", "0", "0">>, <<"+", "0", "5", ":", "3", "0">>, <<"-", "1", "1", ":", "3", "0">> }
FractionTexts == { <<>>, <<".", "1", "2", "3", "4", "5", "6">>, <<".", "1", "2", "3">>, <<".", "5">> }
WrittenFields == { <<2024, 1, 15, 14, 30, 0>>, <<2024, 1, 15, 9, 5, 7>> }
ExampleZ == <<"2", "0", "2", "4", "-", "0", "1", "-", "1", "5", "T", "1", "4", ":", "3", "0", ":", "0", "0", "Z">>
ExampleMinus == <<"2", "0", "2", "4", "-", "0", "1", "-", "1", "5", "T", "1", "4", ":", "3", "0", ":", "0", "0", "-", "0", "5", ":", "0", "0">>
ExampleFraction == <<"2", "0", "2", "4", "-", "0", "1", "-", "1", "5", "T", "1", "4", ":", "3", "0", ":", "0", "0", ".", "1", "2", "3", "4", "5", "6", "+", "0", "0", ":", "0", "0">>

\* C26: parse_iso_timestamp of YYYY-MM-DDTHH:MM:SS followed by an optional
\* fraction of a second and by Z, +HH:MM or -HH:MM returns the six fields
\* as they are written: the designator is dropped and not applied, the
\* fraction is dropped; the three examples give (2024, 1, 15, 14, 30, 0).
Thm_C26 ==
    probe.fn = "parse_iso_timestamp"
      => /\ \A f \in WrittenFields, fr \in FractionTexts, z \in OffsetTails :
              probe.iso_str = IsoStamp(f, fr \o z) => probe.res = Some(f)
         /\ probe.iso_str \in {ExampleZ, ExampleMinus, ExampleFraction}
              => probe.res = Some(<<2024, 1, 15, 14, 30, 0>>)

Wit_C26 ==
    /\ probe.fn = "parse_iso_timestamp"
    /\ probe.iso_str = ExampleFraction
    /\ probe.res = Some(<<2024, 1, 15, 14, 30, 0>>)

Wit_C26_Z ==
    /\ probe.fn = "parse_iso_timestamp"
    /\ probe.iso_str = ExampleZ
    /\ probe.res = Some(<<2024, 1, 15, 14, 30, 0>>)

Wit_C26_minus ==
    /\ probe.fn = "parse_iso_timestamp"
    /\ probe.iso_str = ExampleMinus
    /\ probe.res = Some(<<2024, 1, 15, 14, 30, 0>>)

\* 09:05:07.123 at -05:00 stays 09:05:07.
Wit_C26_not_applied ==
    /\ probe.fn = "parse_iso_timestamp"
    /\ probe.iso_str = IsoStamp(<<2024, 1, 15, 9, 5, 7>>, <<".", "1", "2", "3", "-", "0", "5", ":", "0", "0">>)
    /\ probe.res = Some(<<2024, 1, 15, 9, 5, 7>>)

\* ---------------------------------------------------------------- C27
\* C27: parse_iso_timestamp returns None and raises nothing for
\* "not-a-date" and for every string whose time portion has fewer than two
\* components between colons; no input makes it raise.
Thm_C27 ==
    probe.fn = "parse_iso_timestamp"
      => /\ IsNone(probe.raises)
         /\ probe.iso_str = NotADate => IsNone(probe.res)
         /\ Len(Split(probe.time_part, ":")) < 2 => IsNone(probe.res)

Wit_C27 ==
    /\ probe.fn = "parse_iso_timestamp"
    /\ probe.iso_str = NotADate
    /\ IsNone(probe.res)
    /\ IsNone(probe.raises)

\* "2024-01-15T14": a date that reads and a time of one component.
Wit_C27_hour_only ==
    /\ probe.fn = "parse_iso_timestamp"
    /\ probe.iso_str = DateText \o <<"T", "1", "4">>
    /\ IsNone(probe.res)
    /\ IsNone(probe.raises)

\* Two components are enough: "2024-01-15T14:30" gives second 0.
Wit_C27_two ==
    /\ probe.fn = "parse_iso_timestamp"
    /\ probe.iso_str = DateText \o <<"T", "1", "4", ":", "3", "0">>
    /\ probe.res = Some(<<2024, 1, 15, 14, 30, 0>>)

\* ---------------------------------------------------------------- C28
\* The text after the last '-' of the time portion, and whether it is two
\* components between colons, both of two digits.
AfterLastDash(time_part) == From(time_part, rfind(time_part, "-") + 1)
TwoDigitOffset(text) ==
    /\ Len(Split(text, ":")) = 2
    /\ \A k \in 1..2 : Len(Split(text, ":")[k]) = 2 /\ isdigit(Split(text, ":")[k])

\* C28 as claimed: for a time portion with a '-' (and no '+'),
\* parse_iso_timestamp removes the text from the last '-' on only if what
\* follows that '-' is two colon-separated components of two digits each;
\* otherwise the time portion is parsed as it stands.
Claim_C28 ==
    (/\ probe.fn = "parse_iso_timestamp"
     /\ Contains(probe.time_part, "-")
     /\ ~Contains(probe.time_part, "+"))
      => IF probe.clean # probe.time_part
         THEN /\ TwoDigitOffset(AfterLastDash(probe.time_part))
              /\ probe.clean = Before(probe.time_part, rfind(probe.time_part, "-"))
         ELSE TRUE

\* ---------------------------------------------------------------- C29
\* The characters whose percent-escapes are %20, %3A, %2F, %3F, %23, %5B
\* and %5D.
Reserved == {" ", ":", "/", "?", "#", "[", "]"}

\* The values of the query parameters of a URL: what follows the '=' in the
\* parts that '&' separates after the first '?'.
QueryValues(url) ==
    IF ~Contains(url, "?") THEN {}
    ELSE LET parts == Split(From(url, find(url, "?") + 1), "&")
         IN  { IF Contains(parts[k], "=") THEN From(parts[k], find(parts[k], "=") + 1)
               ELSE <<>> : k \in 1..Len(parts) }

\* C29 as claimed: no query-parameter value of a URL built for the weather,
\* the forecast, the transit predictions or a time service holds a space,
\* ':', '/', '?', '#', '[' or ']'.
Claim_C29 ==
    probe.fn = "url"
      => \A v \in QueryValues(probe.url) : \A k \in 1..Len(v) : v[k] \notin Reserved

\* ---------------------------------------------------------------- C30
\* C30 as claimed: every tick has, when it reaches its sleep, set the label
\* once: to the text and colour of the rotation index the tick started with
\* (the index has advanced by one since), computed from the texts as the
\* tick's refresh tests of weather, transit and clock have left them.
Claim_C30 ==
    pc = "sleep"
      => /\ shown # 0
         /\ state = next_state(shown)
         /\ ~IsNone(decision.weather) /\ ~IsNone(decision.transit) /\ ~IsNone(decision.sync)
         /\ label = render(shown, location_found, last_temperature_text,
                           last_redline_text, clock)

\* ---------------------------------------------------------------- C31
\* C31 as claimed: in a tick that makes the refresh test of a source which
\* has not yet fetched successfully (weather with the location resolved,
\* transit), that source's client is invoked, whatever the time since its
\* last fetch, also in the ticks after a first attempt that failed.
Claim_C31 ==
    /\ (~IsNone(decision.weather) /\ location_found /\ ~weather_succeeded)
         => Invoked("weather")
    /\ (~IsNone(decision.transit) /\ ~transit_succeeded) => Invoked("transit")

\* ---------------------------------------------------------------- C32
\* The cached text of a source is the outcome of the attempt the tick made:
\* the text the client returned, and after an attempt that failed a failure
\* message of the source.
OutcomeCached(tested, text, prefix, failure_texts) ==
    (~IsNone(tested) /\ ~IsNone(Val(tested).fetched))
      => LET f == Val(Val(tested).fetched)
         IN  /\ ~IsNone(f.text) => text = prefix \o Val(f.text)
             /\ f.failed => text \in {prefix \o t : t \in failure_texts}

\* C32 as claimed: an attempt to refresh weather or transit leaves as cached
\* text the outcome of that attempt, the failure message after an attempt
\* that failed; and a cached text changes only in the step of its source's
\* refresh, when the refresh test of the source is true.
Claim_C32 ==
    /\ [](/\ OutcomeCached(decision.weather, last_temperature_text, "", FailureTexts)
          /\ OutcomeCached(decision.transit, last_redline_text, "MBTA:\n",
                           {TransportFailureText}))
    /\ [][ /\ last_temperature_text' # last_temperature_text
             => /\ pc = "weather"
                /\ \/ ~Val(decision'.weather).cached
                   \/ Val(decision'.weather).gap > temperature_query_interval_secs
           /\ last_redline_text' # last_redline_text
             => /\ pc = "transit"
                /\ \/ ~Val(decision'.transit).cached
                   \/ Val(decision'.transit).gap > redline_query_interval_secs ]_vars

\* ---------------------------------------------------------------- C33
\* C33: the rotation index is always one of 1, 2, 3, so the label never
\* holds the "Unknown state" fallback text; the index changes only in the
\* step that ends a tick's render (lines 1055-1057), which a tick that raised
\* never reaches, so a tick aborted by an exception leaves the index as it was.
Thm_C33 ==
    /\ [](/\ state \in {1, 2, 3}
          /\ label.text # "Unknown state" \o "\n" \o get_pretty_time_text
          /\ pc = "render" => IsNone(exc))
    /\ [][ /\ state' # state => (pc = "render" /\ pc' = "sleep" /\ shown' = state)
           /\ ~IsNone(exc) => state' = state ]_vars

\* A render in state 3 wrapped the index to 1; and a tick was aborted by an
\* exception with the index, advanced by the tick before, left at 2.
Wit_C33 == pc = "sleep" /\ shown = 3 /\ state = 1 /\ IsNone(exc)
Wit_C33_aborted == pc = "sleep" /\ ~IsNone(exc) /\ shown = 0 /\ state = 2

\* ---------------------------------------------------------------- C34
\* C34: the sources are isolated.  The step of the transit refresh and the
\* step of the time resync, whatever their outcome, leave the weather text,
\* the weather fetch time and the weather failure counter as they were; the
\* step of the weather refresh leaves the transit text and the transit fetch
\* time as they were.
Thm_C34 ==
    [][ /\ pc \in {"transit", "sync"}
          => UNCHANGED <<last_temperature_text, last_temperature_query_time, fail_count>>
        /\ pc = "weather"
          => UNCHANGED <<last_redline_text, last_redline_query_time>> ]_vars

\* A tick after a failed weather fetch (counter above 0) in which the transit
\* fetch failed and a resync was attempted.
Wit_C34 ==
    /\ pc = "render"
    /\ Invoked("transit") /\ Invoked("sync")
    /\ Val(Val(decision.transit).fetched).failed
    /\ fail_count > 0
    /\ last_temperature_text \in FailureTexts
\* A weather fetch made while a transit text was held.
Wit_C34_weather ==
    /\ pc = "transit"
    /\ Invoked("weather")
    /\ last_redline_text # "" /\ last_redline_query_time > 0

\* ---------------------------------------------------------------- C35
\* Seconds that have passed since display_monitor was entered, which main
\* does right after its boot-time sync (lines 1135-1150): before the first
\* resync nothing but the sleeps and the network calls moves the clock.
SinceBootSync == Elapsed

\* C35 as claimed: the boot-time sync of main counts as the scheduler's last
\* sync, so the first resync the loop attempts comes only when more than
\* time_sync_interval_secs have passed since the boot-time sync.
Claim_C35 ==
    (Invoked("sync") /\ IsNone(Val(decision.sync).prev))
      => SinceBootSync > time_sync_interval_secs

\* ---------------------------------------------------------------- C36
\* The longest a tick lasts: the sleep and the network calls.
Tick == interval_seconds + MaxDelay

\* A source whose refresh test the tick has just made and failed, although
\* more than its interval and a tick have really passed since its last fetch.
Starved(name, after, fetched, interval) ==
    /\ pc = after
    /\ ~Invoked(name)
    /\ ~IsNone(fetched)
    /\ Elapsed - Val(fetched) > interval + Tick

\* C36 as claimed: once a resync has moved the device clock, forwards or
\* backwards, weather (location resolved) and transit are still refreshed
\* by the time their interval and one tick have passed since their last fetch.
Claim_C36 ==
    stamp.moved # {}
      => /\ ~Starved("transit", "sync", stamp.real.transit, redline_query_interval_secs)
         /\ location_found
              => ~Starved("weather", "transit", stamp.real.weather,
                          temperature_query_interval_secs)

\* ---------------------------------------------------------------- C37
Placeholders == {"Location not available", "no Temp avail"}

\* The weather test of the tick read a device clock above the weather interval.
ClockAboveInterval ==
    /\ ~IsNone(decision.weather)
    /\ Val(decision.weather).at > temperature_query_interval_secs

\* C37: in a tick that has the location (resolved in it or before) and
\* whose weather test reads a clock above temperature_query_interval_secs, a
\* placeholder still held as weather text makes the tick invoke the weather
\* client, in the tick of the resolution too; and what the Temperature state
\* of such a tick renders is never a placeholder: it is the text a weather
\* client returned, the one of this tick when it was invoked.
Thm_C37 ==
    (location_found /\ ClockAboveInterval)
      => /\ (~Val(decision.weather).cached \/ Invoked("locate")
               \/ last_temperature_text \in Placeholders)
              => Invoked("weather")
         /\ (pc = "sleep" /\ shown = 1)
              => /\ label.text \notin Placeholders
                 /\ label.text = last_temperature_text
                 /\ ~IsNone(Val(decision.weather).fetched)
                      => Some(label.text) = Val(Val(decision.weather).fetched).text

\* The location was resolved in the fourth tick, which held the placeholder
\* of the ticks before; the tick fetched the weather and rendered it.
Wit_C37 ==
    /\ pc = "sleep" /\ shown = 1 /\ ticks = 3
    /\ Invoked("locate") /\ location_found
    /\ ClockAboveInterval /\ Val(decision.weather).cached
    /\ Invoked("weather")
    /\ label.text = last_temperature_text
\* With the clock at or under the interval the placeholder is rendered.
Wit_C37_low_clock ==
    /\ pc = "sleep" /\ shown = 1 /\ location_found
    /\ label.text = "Location not available"

\* ---------------------------------------------------------------- C38
\* How many times the tick has invoked the Location Resolver.
Resolutions == Len(SelectSeq(calls, LAMBDA c : c = "locate"))

\* C38: a tick that starts without coordinates invokes the resolver, once,
\* whatever the clock reads; a tick invokes it at most once, and a tick that
\* starts with the location found does not invoke it; after an attempt that
\* failed the location is not found and no coordinate is kept, so the next
\* tick tries again.
Thm_C38 ==
    /\ [](/\ Resolutions <= 1
          /\ (pc # "locate" /\ (IsNone(lat) \/ IsNone(lon)))
               => (Resolutions = 1 /\ ~location_found /\ IsNone(lat) /\ IsNone(lon))
          /\ location_found <=> ~(IsNone(lat) \/ IsNone(lon)))
    /\ [][ pc = "locate"
             => calls' = IF IsNone(lat) \/ IsNone(lon) THEN <<"locate">> ELSE <<>> ]_vars

\* The resolver failed in three ticks in a row and was invoked in the fourth.
Wit_C38 ==
    /\ ticks = 3 /\ pc = "weather" /\ faults = MaxFaults
    /\ Resolutions = 1 /\ location_found
\* Its attempt made within the weather interval of the one before.
Wit_C38_failed == ticks = 2 /\ pc = "weather" /\ Resolutions = 1 /\ ~location_found

\* =================================================== display.py: the loop
\* Iterations of display.py's display_monitor explored.
MaxIterations == 3

\* display.py lines 8-40: get_temperature.  A request that raises or is
\* answered with an error status (RequestException) and a payload without
\* main.temp (KeyError) give (None, None).
display_get_temperature(out) ==
    IF out.kind = "payload" /\ out.data.has_main
    THEN [temp |-> out.data.temp, desc |-> Some(out.data.desc)]
    ELSE [temp |-> TNull, desc |-> None]

\* display.py lines 218-241: get_temperature_text.  loc is what
\* get_current_location returned; temp_K is in hundredths of a kelvin.  The
\* result is text (None: the bare `return` of line 223) and raises (temp_K a
\* JSON string: `temp_K - 273.15` raises TypeError, which nothing here catches).
display_get_temperature_text(loc, out) ==
    IF IsNone(loc.lat) \/ IsNone(loc.lon) THEN [text |-> None, raises |-> None]
    ELSE LET cur == display_get_temperature(out)
             tenths_F == (9 * (cur.temp.v - 27315) + 16000) \div 50
         IN  IF cur.temp.t = "null"
             THEN [text |-> Some("Failed to fetch temperature data."), raises |-> None]
             ELSE IF cur.temp.t = "string"
             THEN [text |-> None, raises |-> Some("TypeError")]
             ELSE [text |-> Some("The temperature is " \o ToString(RoundTenths(tenths_F))
                                 \o "oF with " \o Val(cur.desc) \o "."),
                   raises |-> None]

\* display.py lines 244-356: get_redline_departure_text, which catches every
\* exception of its body (lines 351-356).  The payload is the number of
\* predictions that carry a time (at most 3 are listed).
display_get_redline_departure_text(out) ==
    IF out.kind = "transport" \/ out.kind = "status" THEN "Error fetching MBTA data"
    ELSE IF out.kind = "badjson" THEN "Error parsing MBTA data"
    ELSE IF out.data.predictions = 0
    THEN "No inbound Red Line trains scheduled at Porter Square."
    ELSE IF out.data.timed = 0
    THEN "No arrival times available for inbound Red Line trains at Porter Square."
    ELSE "Next inbound Red Line trains at Porter Square: " \o ToString(out.data.timed)

\* What get_onion_headlines (display.py lines 108-215) gives its caller: None,
\* a list of titles (empty when feedparser's entries have no title, line
\* 176), or an exception of feedparser.parse, which only ImportError is
\* caught of (line 182).
HeadlineOuts ==
    { [kind |-> "none", list |-> <<>>], [kind |-> "raises", list |-> <<>>],
      [kind |-> "list", list |-> <<>>],
      [kind |-> "list", list |-> <<"Area Man">>],
      [kind |-> "list", list |-> <<"Area Man", "Nation">>] }
DisplayWeatherOuts ==
    { Transport, BadStatus(401),
      Payload([has_main |-> FALSE, temp |-> TNull, desc |-> "clear sky"]),
      Payload([has_main |-> TRUE, temp |-> TStr, desc |-> "clear sky"]),
      Payload([has_main |-> TRUE, temp |-> TNum(29515), desc |-> "clear sky"]) }
DisplayTransitOuts ==
    { Transport, BadJson, Payload([predictions |-> 0, timed |-> 0]),
      Payload([predictions |-> 2, timed |-> 0]), Payload([predictions |-> 3, timed |-> 2]) }
\* What get_current_location leaves of its services' answers.
DisplayLocations ==
    { display_get_current_location([i \in 1..Len(display_services) |-> o], fb) :
        o \in {Transport, Payload([lat |-> Some(4200), lon |-> Some(-7140)])},
        fb \in {BadJson, Payload([status |-> "success", lat |-> Some(4240),
                                  lon |-> Some(-7110)])} }

\* `except Exception` of display.py line 385: every class but those derived
\* from BaseException only (KeyboardInterrupt has its own handler, line 382).
display_catches(cls) == cls \in ExceptionClasses \cup {"IndexError"}

\* The loop's state: at (the statement reached), iterations (completed),
\* printed (what the iteration has printed, in order), failed (the sources
\* that gave nothing in the iteration: "location" and "temperature" for a
\* result of None, "headlines" for None returned, "headlines raised", "no
\* headline" for an empty list), sleeps (calls of time.sleep the
\* iteration made), raised (the exception in flight or that ended the loop).
Monitor(at, iterations, printed, failed, sleeps, raised) ==
    [fn |-> "display_monitor", at |-> at, iterations |-> iterations,
     printed |-> printed, failed |-> failed, sleeps |-> sleeps, raised |-> raised]
Printed(what, text) == [what |-> what, text |-> text]
InMonitor == probe.fn = "display_monitor"

\* Where an exception raised in the try body takes the loop (lines 382-387);
\* one that no handler takes leaves display_monitor.
Raise(cls, failed) ==
    probe' = [probe EXCEPT !.at = IF cls = "KeyboardInterrupt" THEN "interrupted"
                                  ELSE IF display_catches(cls) THEN "except"
                                  ELSE "stopped",
                           !.failed = @ \cup failed,
                           !.raised = Some(cls)]

\* Lines 368-370: display_monitor is entered.
EnterMonitor ==
    /\ probe = NoProbe
    /\ probe' = Monitor("temperature", 0, <<>>, {}, 0, None)
    /\ UNCHANGED <<othervars, fail_count>>

\* Lines 373-374: text = get_temperature_text(api_key); print(text).
MonitorTemperature ==
    /\ InMonitor /\ probe.at = "temperature"
    /\ \E loc \in DisplayLocations, out \in DisplayWeatherOuts :
         LET r == display_get_temperature_text(loc, out)
             unavailable == IF IsNone(loc.lat) \/ IsNone(loc.lon) THEN {"location"}
                            ELSE IF r.text = Some("Failed to fetch temperature data.")
                                    \/ ~IsNone(r.raises)
                            THEN {"temperature"} ELSE {}
         IN  IF ~IsNone(r.raises) THEN Raise(Val(r.raises), unavailable)
             ELSE probe' = [probe EXCEPT
                     !.at = "headlines",
                     !.failed = @ \cup unavailable,
                     !.printed = Append(@, Printed("text",
                                     IF IsNone(r.text) THEN "None" ELSE Val(r.text)))]
    /\ UNCHANGED <<othervars, fail_count>>

\* Lines 375-378: the headlines, len() of them, random.choice of one, print.
MonitorHeadlines ==
    /\ InMonitor /\ probe.at = "headlines"
    /\ \E h \in HeadlineOuts :
         IF h.kind = "raises" THEN Raise("OSError", {"headlines raised"})
         ELSE IF h.kind = "none" THEN Raise("TypeError", {"headlines"})
         ELSE IF h.list = <<>> THEN Raise("IndexError", {"no headline"})
         ELSE \E i \in 1..Len(h.list) :
                probe' = [probe EXCEPT !.at = "departure",
                                       !.printed = Append(@, Printed("entry", h.list[i]))]
    /\ UNCHANGED <<othervars, fail_count>>

\* Lines 379-380: departure_text = get_redline_departure_text(...); print.
MonitorDeparture ==
    /\ InMonitor /\ probe.at = "departure"
    /\ \E out \in DisplayTransitOuts :
         probe' = [probe EXCEPT
             !.at = "sleep",
             !.printed = Append(@, Printed("departure_text",
                                           display_get_redline_departure_text(out)))]
    /\ UNCHANGED <<othervars, fail_count>>

\* Line 381: time.sleep(interval_seconds) at the end of the try body.
MonitorSleep ==
    /\ InMonitor /\ probe.at = "sleep"
    /\ probe' = [probe EXCEPT !.at = "end", !.sleeps = @ + 1]
    /\ UNCHANGED <<othervars, fail_count>>

\* Lines 385-387: the handler prints the error and sleeps.
MonitorExcept ==
    /\ InMonitor /\ probe.at = "except"
    /\ probe' = [probe EXCEPT !.at = "end", !.sleeps = @ + 1,
                              !.printed = Append(@, Printed("error", Val(probe.raised)))]
    /\ UNCHANGED <<othervars, fail_count>>

\* KeyboardInterrupt arrives while a statement of the try body runs.
MonitorInterrupt ==
    /\ InMonitor /\ probe.at \in {"temperature", "headlines", "departure", "sleep"}
    /\ Raise("KeyboardInterrupt", {})
    /\ UNCHANGED <<othervars, fail_count>>

\* Lines 382-384: the handler of KeyboardInterrupt breaks the loop.
MonitorBreak ==
    /\ InMonitor /\ probe.at = "interrupted"
    /\ probe' = [probe EXCEPT !.at = "stopped"]
    /\ UNCHANGED <<othervars, fail_count>>

\* Line 370: `while True` starts the next iteration.
MonitorAgain ==
    /\ InMonitor /\ probe.at = "end"
    /\ probe.iterations < MaxIterations
    /\ probe' = Monitor("temperature", probe.iterations + 1, <<>>, {}, 0, None)
    /\ UNCHANGED <<othervars, fail_count>>

MonitorNext ==
    \/ EnterMonitor
    \/ MonitorTemperature
    \/ MonitorHeadlines
    \/ MonitorDeparture
    \/ MonitorSleep
    \/ MonitorExcept
    \/ MonitorInterrupt
    \/ MonitorBreak
    \/ MonitorAgain

MonitorSpec == Init /\ [][MonitorNext]_vars

\* ---------------------------------------------------------------- C39
DepartureWasPrinted == \E i \in 1..Len(probe.printed) : probe.printed[i].what = "departure_text"

\* C39 as claimed: in display.py's display_monitor an iteration that has
\* ended has slept exactly once, the loop stops only on KeyboardInterrupt,
\* and an iteration in which the location was unavailable or the headline
\* fetch gave None has still printed the transit departure text.
Claim_C39 ==
    InMonitor
      => /\ probe.at = "end" => probe.sleeps = 1
         /\ probe.at = "stopped" => probe.raised = Some("KeyboardInterrupt")
         /\ (probe.at = "end" /\ probe.failed # {}
               /\ probe.failed \subseteq {"location", "headlines"})
              => DepartureWasPrinted

====
